---- MODULE Spec2Model ----
(***************************************************************************)
(* Model of system/media:                                                  *)
(*   audio/include/system/audio-hal-enums.h  enum <-> string converters    *)
(*   audio_utils/mutex.cpp                   mutex_get_enable_flag         *)
(*                                                                         *)
(* A 32-bit value is a pair <<hi, lo>> of 16-bit halves, so that values    *)
(* with bit 31 set (AUDIO_CHANNEL_INDEX_HDR, AUDIO_DEVICE_BIT_IN, -1) keep *)
(* their width.                                                            *)
(***************************************************************************)
EXTENDS Integers, Sequences, FiniteSets, TLC

VARIABLES
    build,      \* "vendor": AUDIO_NO_SYSTEM_DECLARATIONS defined; "framework": not
    pc,         \* position of the caller of the converters
    fn,         \* the converter called last
    s,          \* the string passed to a from_string function
    t0,         \* content of the output location *t before the call
    t,          \* content of the output location *t after the call
    ret,        \* value returned by the from_string function
    v,          \* the value passed to a to_string function
    str,        \* the string returned by the to_string function
    source,     \* current value of the flag mutex_priority_inheritance()
    guard,      \* initialization guard of the function-local static 'enable'
    enable,     \* the static const bool 'enable': <<>> before it is initialized, <<b>> after
    evals,      \* number of evaluations of mutex_priority_inheritance()
    logged,     \* number of ALOGD lines written
    tpc,        \* position of each thread in mutex_get_enable_flag
    flag,       \* the lambda's local 'flag' of each thread: <<>> until initialized, then <<b>>
    calls,      \* number of calls each thread has started
    rets,       \* per thread, the values its calls returned, in order
    waited,     \* number of calls that found the initialization in progress and blocked
    stale       \* a thread's second or later call returned a value while the flag
                \* had another value

codecVars == <<build, pc, fn, s, t0, t, ret, v, str>>
mutexVars ==
    <<source, guard, enable, evals, logged, tpc, flag, calls, rets, waited, stale>>
vars == <<codecVars, mutexVars>>

----------------------------------------------------------------------------
(* 32-bit words *)

W(hi, lo) == <<hi, lo>>

Zero == W(0, 0)

\* an int of the source (a decimal or negative enumerator value, or the
\* result of (1 << N) - 1) as a 32-bit two's complement word
ToWord(n) ==
    IF n >= 0 THEN W(n \div 65536, n % 65536)
    ELSE W(32768 + ((n + 2147483647 + 1) \div 65536), (n + 2147483647 + 1) % 65536)

RECURSIVE BitOr(_, _)
BitOr(a, b) ==
    IF a = 0 THEN b
    ELSE IF b = 0 THEN a
    ELSE (IF a % 2 = 1 \/ b % 2 = 1 THEN 1 ELSE 0) + 2 * BitOr(a \div 2, b \div 2)

\* variant of Or: the operands are combined in 16 bits, the high halves are lost
OrLow16(a, b) == W(0, BitOr(a[2], b[2]))

\* the C operator |
Or(a, b) == W(BitOr(a[1], b[1]), BitOr(a[2], b[2]))

\* variant of OrAll: only the first operand of an initializer 'a | b | ...' is taken
OrFirstOnly(acc, ws) == IF ws = <<>> THEN acc ELSE Or(acc, Head(ws))

RECURSIVE OrAll(_, _)
OrAll(acc, ws) == IF ws = <<>> THEN acc ELSE OrAll(Or(acc, Head(ws)), Tail(ws))

----------------------------------------------------------------------------
(* The value lists.  An entry <<symbol, literal, <<symbols>>>> is the macro  *)
(* row V(symbol, literal | symbols...); an entry <<symbol>> is V(symbol).    *)

\* audio-hal-enums.h lines 74-96
AUDIO_CHANNEL_OUT_DISCRETE_CHANNEL_LIST_DEF ==
    <<
      <<"AUDIO_CHANNEL_OUT_FRONT_LEFT", W(\h0000, \h0001), <<>>>>,
      <<"AUDIO_CHANNEL_OUT_FRONT_RIGHT", W(\h0000, \h0002), <<>>>>,
      <<"AUDIO_CHANNEL_OUT_FRONT_CENTER", W(\h0000, \h0004), <<>>>>,
      <<"AUDIO_CHANNEL_OUT_LOW_FREQUENCY", W(\h0000, \h0008), <<>>>>,
      <<"AUDIO_CHANNEL_OUT_BACK_LEFT", W(\h0000, \h0010), <<>>>>,
      <<"AUDIO_CHANNEL_OUT_BACK_RIGHT", W(\h0000, \h0020), <<>>>>,
      <<"AUDIO_CHANNEL_OUT_FRONT_LEFT_OF_CENTER", W(\h0000, \h0040), <<>>>>,
      <<"AUDIO_CHANNEL_OUT_FRONT_RIGHT_OF_CENTER", W(\h0000, \h0080), <<>>>>,
      <<"AUDIO_CHANNEL_OUT_BACK_CENTER", W(\h0000, \h0100), <<>>>>,
      <<"AUDIO_CHANNEL_OUT_SIDE_LEFT", W(\h0000, \h0200), <<>>>>,
      <<"AUDIO_CHANNEL_OUT_SIDE_RIGHT", W(\h0000, \h0400), <<>>>>,
      <<"AUDIO_CHANNEL_OUT_TOP_CENTER", W(\h0000, \h0800), <<>>>>,
      <<"AUDIO_CHANNEL_OUT_TOP_FRONT_LEFT", W(\h0000, \h1000), <<>>>>,
      <<"AUDIO_CHANNEL_OUT_TOP_FRONT_CENTER", W(\h0000, \h2000), <<>>>>,
      <<"AUDIO_CHANNEL_OUT_TOP_FRONT_RIGHT", W(\h0000, \h4000), <<>>>>,
      <<"AUDIO_CHANNEL_OUT_TOP_BACK_LEFT", W(\h0000, \h8000), <<>>>>,
      <<"AUDIO_CHANNEL_OUT_TOP_BACK_CENTER", W(\h0001, \h0000), <<>>>>,
      <<"AUDIO_CHANNEL_OUT_TOP_BACK_RIGHT", W(\h0002, \h0000), <<>>>>,
      <<"AUDIO_CHANNEL_OUT_TOP_SIDE_LEFT", W(\h0004, \h0000), <<>>>>,
      <<"AUDIO_CHANNEL_OUT_TOP_SIDE_RIGHT", W(\h0008, \h0000), <<>>>>,
      <<"AUDIO_CHANNEL_OUT_HAPTIC_A", W(\h2000, \h0000), <<>>>>,
      <<"AUDIO_CHANNEL_OUT_HAPTIC_B", W(\h1000, \h0000), <<>>>>
    >>

\* variant of AUDIO_CHANNEL_IN_DISCRETE_CHANNEL_LIST_DEF: AUDIO_CHANNEL_IN_TOP_RIGHT
\* is 0x800000u, one bit above its place
AUDIO_CHANNEL_IN_DISCRETE_CHANNEL_LIST_TOP_RIGHT_SHIFTED ==
    <<
      <<"AUDIO_CHANNEL_IN_LEFT", W(\h0000, \h0004), <<>>>>,
      <<"AUDIO_CHANNEL_IN_RIGHT", W(\h0000, \h0008), <<>>>>,
      <<"AUDIO_CHANNEL_IN_FRONT", W(\h0000, \h0010), <<>>>>,
      <<"AUDIO_CHANNEL_IN_BACK", W(\h0000, \h0020), <<>>>>,
      <<"AUDIO_CHANNEL_IN_LEFT_PROCESSED", W(\h0000, \h0040), <<>>>>,
      <<"AUDIO_CHANNEL_IN_RIGHT_PROCESSED", W(\h0000, \h0080), <<>>>>,
      <<"AUDIO_CHANNEL_IN_FRONT_PROCESSED", W(\h0000, \h0100), <<>>>>,
      <<"AUDIO_CHANNEL_IN_BACK_PROCESSED", W(\h0000, \h0200), <<>>>>,
      <<"AUDIO_CHANNEL_IN_PRESSURE", W(\h0000, \h0400), <<>>>>,
      <<"AUDIO_CHANNEL_IN_X_AXIS", W(\h0000, \h0800), <<>>>>,
      <<"AUDIO_CHANNEL_IN_Y_AXIS", W(\h0000, \h1000), <<>>>>,
      <<"AUDIO_CHANNEL_IN_Z_AXIS", W(\h0000, \h2000), <<>>>>,
      <<"AUDIO_CHANNEL_IN_VOICE_UPLINK", W(\h0000, \h4000), <<>>>>,
      <<"AUDIO_CHANNEL_IN_VOICE_DNLINK", W(\h0000, \h8000), <<>>>>,
      <<"AUDIO_CHANNEL_IN_BACK_LEFT", W(\h0001, \h0000), <<>>>>,
      <<"AUDIO_CHANNEL_IN_BACK_RIGHT", W(\h0002, \h0000), <<>>>>,
      <<"AUDIO_CHANNEL_IN_CENTER", W(\h0004, \h0000), <<>>>>,
      <<"AUDIO_CHANNEL_IN_LOW_FREQUENCY", W(\h0010, \h0000), <<>>>>,
      <<"AUDIO_CHANNEL_IN_TOP_LEFT", W(\h0020, \h0000), <<>>>>,
      <<"AUDIO_CHANNEL_IN_TOP_RIGHT", W(\h0080, \h0000), <<>>>>
    >>

\* audio-hal-enums.h lines 98-118
AUDIO_CHANNEL_IN_DISCRETE_CHANNEL_LIST_DEF ==
    <<
      <<"AUDIO_CHANNEL_IN_LEFT", W(\h0000, \h0004), <<>>>>,
      <<"AUDIO_CHANNEL_IN_RIGHT", W(\h0000, \h0008), <<>>>>,
      <<"AUDIO_CHANNEL_IN_FRONT", W(\h0000, \h0010), <<>>>>,
      <<"AUDIO_CHANNEL_IN_BACK", W(\h0000, \h0020), <<>>>>,
      <<"AUDIO_CHANNEL_IN_LEFT_PROCESSED", W(\h0000, \h0040), <<>>>>,
      <<"AUDIO_CHANNEL_IN_RIGHT_PROCESSED", W(\h0000, \h0080), <<>>>>,
      <<"AUDIO_CHANNEL_IN_FRONT_PROCESSED", W(\h0000, \h0100), <<>>>>,
      <<"AUDIO_CHANNEL_IN_BACK_PROCESSED", W(\h0000, \h0200), <<>>>>,
      <<"AUDIO_CHANNEL_IN_PRESSURE", W(\h0000, \h0400), <<>>>>,
      <<"AUDIO_CHANNEL_IN_X_AXIS", W(\h0000, \h0800), <<>>>>,
      <<"AUDIO_CHANNEL_IN_Y_AXIS", W(\h0000, \h1000), <<>>>>,
      <<"AUDIO_CHANNEL_IN_Z_AXIS", W(\h0000, \h2000), <<>>>>,
      <<"AUDIO_CHANNEL_IN_VOICE_UPLINK", W(\h0000, \h4000), <<>>>>,
      <<"AUDIO_CHANNEL_IN_VOICE_DNLINK", W(\h0000, \h8000), <<>>>>,
      <<"AUDIO_CHANNEL_IN_BACK_LEFT", W(\h0001, \h0000), <<>>>>,
      <<"AUDIO_CHANNEL_IN_BACK_RIGHT", W(\h0002, \h0000), <<>>>>,
      <<"AUDIO_CHANNEL_IN_CENTER", W(\h0004, \h0000), <<>>>>,
      <<"AUDIO_CHANNEL_IN_LOW_FREQUENCY", W(\h0010, \h0000), <<>>>>,
      <<"AUDIO_CHANNEL_IN_TOP_LEFT", W(\h0020, \h0000), <<>>>>,
      <<"AUDIO_CHANNEL_IN_TOP_RIGHT", W(\h0040, \h0000), <<>>>>
    >>

\* audio-hal-enums.h lines 119-120
AUDIO_CHANNEL_IN_OUT_MASK_LIST_DEF ==
    <<
      <<"AUDIO_CHANNEL_NONE", W(\h0000, \h0000), <<>>>>
    >>

\* audio-hal-enums.h lines 122-149
AUDIO_CHANNEL_OUT_MASK_LIST_UNIQUE_DEF ==
    <<
      <<"AUDIO_CHANNEL_OUT_MONO", W(\h0000, \h0000), <<"AUDIO_CHANNEL_OUT_FRONT_LEFT">>>>,
      <<"AUDIO_CHANNEL_OUT_STEREO", W(\h0000, \h0000), <<"AUDIO_CHANNEL_OUT_FRONT_LEFT", "AUDIO_CHANNEL_OUT_FRONT_RIGHT">>>>,
      <<"AUDIO_CHANNEL_OUT_2POINT1", W(\h0000, \h0000), <<"AUDIO_CHANNEL_OUT_FRONT_LEFT", "AUDIO_CHANNEL_OUT_FRONT_RIGHT", "AUDIO_CHANNEL_OUT_LOW_FREQUENCY">>>>,
      <<"AUDIO_CHANNEL_OUT_TRI", W(\h0000, \h0000), <<"AUDIO_CHANNEL_OUT_FRONT_LEFT", "AUDIO_CHANNEL_OUT_FRONT_RIGHT", "AUDIO_CHANNEL_OUT_FRONT_CENTER">>>>,
      <<"AUDIO_CHANNEL_OUT_TRI_BACK", W(\h0000, \h0000), <<"AUDIO_CHANNEL_OUT_FRONT_LEFT", "AUDIO_CHANNEL_OUT_FRONT_RIGHT", "AUDIO_CHANNEL_OUT_BACK_CENTER">>>>,
      <<"AUDIO_CHANNEL_OUT_3POINT1", W(\h0000, \h0000), <<"AUDIO_CHANNEL_OUT_FRONT_LEFT", "AUDIO_CHANNEL_OUT_FRONT_RIGHT", "AUDIO_CHANNEL_OUT_FRONT_CENTER", "AUDIO_CHANNEL_OUT_LOW_FREQUENCY">>>>,
      <<"AUDIO_CHANNEL_OUT_2POINT0POINT2", W(\h0000, \h0000), <<"AUDIO_CHANNEL_OUT_FRONT_LEFT", "AUDIO_CHANNEL_OUT_FRONT_RIGHT", "AUDIO_CHANNEL_OUT_TOP_SIDE_LEFT", "AUDIO_CHANNEL_OUT_TOP_SIDE_RIGHT">>>>,
      <<"AUDIO_CHANNEL_OUT_2POINT1POINT2", W(\h0000, \h0000), <<"AUDIO_CHANNEL_OUT_FRONT_LEFT", "AUDIO_CHANNEL_OUT_FRONT_RIGHT", "AUDIO_CHANNEL_OUT_TOP_SIDE_LEFT", "AUDIO_CHANNEL_OUT_TOP_SIDE_RIGHT", "AUDIO_CHANNEL_OUT_LOW_FREQUENCY">>>>,
      <<"AUDIO_CHANNEL_OUT_3POINT0POINT2", W(\h0000, \h0000), <<"AUDIO_CHANNEL_OUT_FRONT_LEFT", "AUDIO_CHANNEL_OUT_FRONT_RIGHT", "AUDIO_CHANNEL_OUT_FRONT_CENTER", "AUDIO_CHANNEL_OUT_TOP_SIDE_LEFT", "AUDIO_CHANNEL_OUT_TOP_SIDE_RIGHT">>>>,
      <<"AUDIO_CHANNEL_OUT_3POINT1POINT2", W(\h0000, \h0000), <<"AUDIO_CHANNEL_OUT_FRONT_LEFT", "AUDIO_CHANNEL_OUT_FRONT_RIGHT", "AUDIO_CHANNEL_OUT_FRONT_CENTER", "AUDIO_CHANNEL_OUT_TOP_SIDE_LEFT", "AUDIO_CHANNEL_OUT_TOP_SIDE_RIGHT", "AUDIO_CHANNEL_OUT_LOW_FREQUENCY">>>>,
      <<"AUDIO_CHANNEL_OUT_QUAD", W(\h0000, \h0000), <<"AUDIO_CHANNEL_OUT_FRONT_LEFT", "AUDIO_CHANNEL_OUT_FRONT_RIGHT", "AUDIO_CHANNEL_OUT_BACK_LEFT", "AUDIO_CHANNEL_OUT_BACK_RIGHT">>>>,
      <<"AUDIO_CHANNEL_OUT_QUAD_SIDE", W(\h0000, \h0000), <<"AUDIO_CHANNEL_OUT_FRONT_LEFT", "AUDIO_CHANNEL_OUT_FRONT_RIGHT", "AUDIO_CHANNEL_OUT_SIDE_LEFT", "AUDIO_CHANNEL_OUT_SIDE_RIGHT">>>>,
      <<"AUDIO_CHANNEL_OUT_SURROUND", W(\h0000, \h0000), <<"AUDIO_CHANNEL_OUT_FRONT_LEFT", "AUDIO_CHANNEL_OUT_FRONT_RIGHT", "AUDIO_CHANNEL_OUT_FRONT_CENTER", "AUDIO_CHANNEL_OUT_BACK_CENTER">>>>,
      <<"AUDIO_CHANNEL_OUT_PENTA", W(\h0000, \h0000), <<"AUDIO_CHANNEL_OUT_QUAD", "AUDIO_CHANNEL_OUT_FRONT_CENTER">>>>,
      <<"AUDIO_CHANNEL_OUT_5POINT1", W(\h0000, \h0000), <<"AUDIO_CHANNEL_OUT_FRONT_LEFT", "AUDIO_CHANNEL_OUT_FRONT_RIGHT", "AUDIO_CHANNEL_OUT_FRONT_CENTER", "AUDIO_CHANNEL_OUT_LOW_FREQUENCY", "AUDIO_CHANNEL_OUT_BACK_LEFT", "AUDIO_CHANNEL_OUT_BACK_RIGHT">>>>,
      <<"AUDIO_CHANNEL_OUT_5POINT1_SIDE", W(\h0000, \h0000), <<"AUDIO_CHANNEL_OUT_FRONT_LEFT", "AUDIO_CHANNEL_OUT_FRONT_RIGHT", "AUDIO_CHANNEL_OUT_FRONT_CENTER", "AUDIO_CHANNEL_OUT_LOW_FREQUENCY", "AUDIO_CHANNEL_OUT_SIDE_LEFT", "AUDIO_CHANNEL_OUT_SIDE_RIGHT">>>>,
      <<"AUDIO_CHANNEL_OUT_5POINT1POINT2", W(\h0000, \h0000), <<"AUDIO_CHANNEL_OUT_5POINT1", "AUDIO_CHANNEL_OUT_TOP_SIDE_LEFT", "AUDIO_CHANNEL_OUT_TOP_SIDE_RIGHT">>>>,
      <<"AUDIO_CHANNEL_OUT_5POINT1POINT4", W(\h0000, \h0000), <<"AUDIO_CHANNEL_OUT_5POINT1", "AUDIO_CHANNEL_OUT_TOP_FRONT_LEFT", "AUDIO_CHANNEL_OUT_TOP_FRONT_RIGHT", "AUDIO_CHANNEL_OUT_TOP_BACK_LEFT", "AUDIO_CHANNEL_OUT_TOP_BACK_RIGHT">>>>,
      <<"AUDIO_CHANNEL_OUT_6POINT1", W(\h0000, \h0000), <<"AUDIO_CHANNEL_OUT_FRONT_LEFT", "AUDIO_CHANNEL_OUT_FRONT_RIGHT", "AUDIO_CHANNEL_OUT_FRONT_CENTER", "AUDIO_CHANNEL_OUT_LOW_FREQUENCY", "AUDIO_CHANNEL_OUT_BACK_LEFT", "AUDIO_CHANNEL_OUT_BACK_RIGHT", "AUDIO_CHANNEL_OUT_BACK_CENTER">>>>,
      <<"AUDIO_CHANNEL_OUT_7POINT1", W(\h0000, \h0000), <<"AUDIO_CHANNEL_OUT_FRONT_LEFT", "AUDIO_CHANNEL_OUT_FRONT_RIGHT", "AUDIO_CHANNEL_OUT_FRONT_CENTER", "AUDIO_CHANNEL_OUT_LOW_FREQUENCY", "AUDIO_CHANNEL_OUT_BACK_LEFT", "AUDIO_CHANNEL_OUT_BACK_RIGHT", "AUDIO_CHANNEL_OUT_SIDE_LEFT", "AUDIO_CHANNEL_OUT_SIDE_RIGHT">>>>,
      <<"AUDIO_CHANNEL_OUT_7POINT1POINT2", W(\h0000, \h0000), <<"AUDIO_CHANNEL_OUT_7POINT1", "AUDIO_CHANNEL_OUT_TOP_SIDE_LEFT", "AUDIO_CHANNEL_OUT_TOP_SIDE_RIGHT">>>>,
      <<"AUDIO_CHANNEL_OUT_7POINT1POINT4", W(\h0000, \h0000), <<"AUDIO_CHANNEL_OUT_7POINT1", "AUDIO_CHANNEL_OUT_TOP_FRONT_LEFT", "AUDIO_CHANNEL_OUT_TOP_FRONT_RIGHT", "AUDIO_CHANNEL_OUT_TOP_BACK_LEFT", "AUDIO_CHANNEL_OUT_TOP_BACK_RIGHT">>>>,
      <<"AUDIO_CHANNEL_OUT_MONO_HAPTIC_A", W(\h0000, \h0000), <<"AUDIO_CHANNEL_OUT_MONO", "AUDIO_CHANNEL_OUT_HAPTIC_A">>>>,
      <<"AUDIO_CHANNEL_OUT_STEREO_HAPTIC_A", W(\h0000, \h0000), <<"AUDIO_CHANNEL_OUT_STEREO", "AUDIO_CHANNEL_OUT_HAPTIC_A">>>>,
      <<"AUDIO_CHANNEL_OUT_HAPTIC_AB", W(\h0000, \h0000), <<"AUDIO_CHANNEL_OUT_HAPTIC_A", "AUDIO_CHANNEL_OUT_HAPTIC_B">>>>,
      <<"AUDIO_CHANNEL_OUT_MONO_HAPTIC_AB", W(\h0000, \h0000), <<"AUDIO_CHANNEL_OUT_MONO", "AUDIO_CHANNEL_OUT_HAPTIC_AB">>>>,
      <<"AUDIO_CHANNEL_OUT_STEREO_HAPTIC_AB", W(\h0000, \h0000), <<"AUDIO_CHANNEL_OUT_STEREO", "AUDIO_CHANNEL_OUT_HAPTIC_AB">>>>
    >>

\* audio-hal-enums.h lines 152-155
AUDIO_CHANNEL_OUT_MASK_LIST_DEF ==
    AUDIO_CHANNEL_OUT_MASK_LIST_UNIQUE_DEF \o <<
      <<"AUDIO_CHANNEL_OUT_5POINT1_BACK", W(\h0000, \h0000), <<"AUDIO_CHANNEL_OUT_5POINT1">>>>,
      <<"AUDIO_CHANNEL_OUT_QUAD_BACK", W(\h0000, \h0000), <<"AUDIO_CHANNEL_OUT_QUAD">>>>
    >>

\* audio-hal-enums.h lines 156-168
AUDIO_CHANNEL_IN_MASK_LIST_DEF ==
    <<
      <<"AUDIO_CHANNEL_IN_MONO", W(\h0000, \h0000), <<"AUDIO_CHANNEL_IN_FRONT">>>>,
      <<"AUDIO_CHANNEL_IN_STEREO", W(\h0000, \h0000), <<"AUDIO_CHANNEL_IN_LEFT", "AUDIO_CHANNEL_IN_RIGHT">>>>,
      <<"AUDIO_CHANNEL_IN_FRONT_BACK", W(\h0000, \h0000), <<"AUDIO_CHANNEL_IN_FRONT", "AUDIO_CHANNEL_IN_BACK">>>>,
      <<"AUDIO_CHANNEL_IN_6", W(\h0000, \h0000), <<"AUDIO_CHANNEL_IN_LEFT", "AUDIO_CHANNEL_IN_RIGHT", "AUDIO_CHANNEL_IN_FRONT", "AUDIO_CHANNEL_IN_BACK", "AUDIO_CHANNEL_IN_LEFT_PROCESSED", "AUDIO_CHANNEL_IN_RIGHT_PROCESSED">>>>,
      <<"AUDIO_CHANNEL_IN_2POINT0POINT2", W(\h0000, \h0000), <<"AUDIO_CHANNEL_IN_LEFT", "AUDIO_CHANNEL_IN_RIGHT", "AUDIO_CHANNEL_IN_TOP_LEFT", "AUDIO_CHANNEL_IN_TOP_RIGHT">>>>,
      <<"AUDIO_CHANNEL_IN_2POINT1POINT2", W(\h0000, \h0000), <<"AUDIO_CHANNEL_IN_LEFT", "AUDIO_CHANNEL_IN_RIGHT", "AUDIO_CHANNEL_IN_TOP_LEFT", "AUDIO_CHANNEL_IN_TOP_RIGHT", "AUDIO_CHANNEL_IN_LOW_FREQUENCY">>>>,
      <<"AUDIO_CHANNEL_IN_3POINT0POINT2", W(\h0000, \h0000), <<"AUDIO_CHANNEL_IN_LEFT", "AUDIO_CHANNEL_IN_CENTER", "AUDIO_CHANNEL_IN_RIGHT", "AUDIO_CHANNEL_IN_TOP_LEFT", "AUDIO_CHANNEL_IN_TOP_RIGHT">>>>,
      <<"AUDIO_CHANNEL_IN_3POINT1POINT2", W(\h0000, \h0000), <<"AUDIO_CHANNEL_IN_LEFT", "AUDIO_CHANNEL_IN_CENTER", "AUDIO_CHANNEL_IN_RIGHT", "AUDIO_CHANNEL_IN_TOP_LEFT", "AUDIO_CHANNEL_IN_TOP_RIGHT", "AUDIO_CHANNEL_IN_LOW_FREQUENCY">>>>,
      <<"AUDIO_CHANNEL_IN_5POINT1", W(\h0000, \h0000), <<"AUDIO_CHANNEL_IN_LEFT", "AUDIO_CHANNEL_IN_CENTER", "AUDIO_CHANNEL_IN_RIGHT", "AUDIO_CHANNEL_IN_BACK_LEFT", "AUDIO_CHANNEL_IN_BACK_RIGHT", "AUDIO_CHANNEL_IN_LOW_FREQUENCY">>>>,
      <<"AUDIO_CHANNEL_IN_VOICE_UPLINK_MONO", W(\h0000, \h0000), <<"AUDIO_CHANNEL_IN_VOICE_UPLINK", "AUDIO_CHANNEL_IN_MONO">>>>,
      <<"AUDIO_CHANNEL_IN_VOICE_DNLINK_MONO", W(\h0000, \h0000), <<"AUDIO_CHANNEL_IN_VOICE_DNLINK", "AUDIO_CHANNEL_IN_MONO">>>>,
      <<"AUDIO_CHANNEL_IN_VOICE_CALL_MONO", W(\h0000, \h0000), <<"AUDIO_CHANNEL_IN_VOICE_UPLINK_MONO", "AUDIO_CHANNEL_IN_VOICE_DNLINK_MONO">>>>
    >>

\* audio-hal-enums.h lines 177-201
AUDIO_CHANNEL_INDEX_MASK_LIST_DEF ==
    <<
      <<"AUDIO_CHANNEL_INDEX_MASK_1", ToWord(2^1 - 1), <<"AUDIO_CHANNEL_INDEX_HDR">>>>,
      <<"AUDIO_CHANNEL_INDEX_MASK_2", ToWord(2^2 - 1), <<"AUDIO_CHANNEL_INDEX_HDR">>>>,
      <<"AUDIO_CHANNEL_INDEX_MASK_3", ToWord(2^3 - 1), <<"AUDIO_CHANNEL_INDEX_HDR">>>>,
      <<"AUDIO_CHANNEL_INDEX_MASK_4", ToWord(2^4 - 1), <<"AUDIO_CHANNEL_INDEX_HDR">>>>,
      <<"AUDIO_CHANNEL_INDEX_MASK_5", ToWord(2^5 - 1), <<"AUDIO_CHANNEL_INDEX_HDR">>>>,
      <<"AUDIO_CHANNEL_INDEX_MASK_6", ToWord(2^6 - 1), <<"AUDIO_CHANNEL_INDEX_HDR">>>>,
      <<"AUDIO_CHANNEL_INDEX_MASK_7", ToWord(2^7 - 1), <<"AUDIO_CHANNEL_INDEX_HDR">>>>,
      <<"AUDIO_CHANNEL_INDEX_MASK_8", ToWord(2^8 - 1), <<"AUDIO_CHANNEL_INDEX_HDR">>>>,
      <<"AUDIO_CHANNEL_INDEX_MASK_9", ToWord(2^9 - 1), <<"AUDIO_CHANNEL_INDEX_HDR">>>>,
      <<"AUDIO_CHANNEL_INDEX_MASK_10", ToWord(2^10 - 1), <<"AUDIO_CHANNEL_INDEX_HDR">>>>,
      <<"AUDIO_CHANNEL_INDEX_MASK_11", ToWord(2^11 - 1), <<"AUDIO_CHANNEL_INDEX_HDR">>>>,
      <<"AUDIO_CHANNEL_INDEX_MASK_12", ToWord(2^12 - 1), <<"AUDIO_CHANNEL_INDEX_HDR">>>>,
      <<"AUDIO_CHANNEL_INDEX_MASK_13", ToWord(2^13 - 1), <<"AUDIO_CHANNEL_INDEX_HDR">>>>,
      <<"AUDIO_CHANNEL_INDEX_MASK_14", ToWord(2^14 - 1), <<"AUDIO_CHANNEL_INDEX_HDR">>>>,
      <<"AUDIO_CHANNEL_INDEX_MASK_15", ToWord(2^15 - 1), <<"AUDIO_CHANNEL_INDEX_HDR">>>>,
      <<"AUDIO_CHANNEL_INDEX_MASK_16", ToWord(2^16 - 1), <<"AUDIO_CHANNEL_INDEX_HDR">>>>,
      <<"AUDIO_CHANNEL_INDEX_MASK_17", ToWord(2^17 - 1), <<"AUDIO_CHANNEL_INDEX_HDR">>>>,
      <<"AUDIO_CHANNEL_INDEX_MASK_18", ToWord(2^18 - 1), <<"AUDIO_CHANNEL_INDEX_HDR">>>>,
      <<"AUDIO_CHANNEL_INDEX_MASK_19", ToWord(2^19 - 1), <<"AUDIO_CHANNEL_INDEX_HDR">>>>,
      <<"AUDIO_CHANNEL_INDEX_MASK_20", ToWord(2^20 - 1), <<"AUDIO_CHANNEL_INDEX_HDR">>>>,
      <<"AUDIO_CHANNEL_INDEX_MASK_21", ToWord(2^21 - 1), <<"AUDIO_CHANNEL_INDEX_HDR">>>>,
      <<"AUDIO_CHANNEL_INDEX_MASK_22", ToWord(2^22 - 1), <<"AUDIO_CHANNEL_INDEX_HDR">>>>,
      <<"AUDIO_CHANNEL_INDEX_MASK_23", ToWord(2^23 - 1), <<"AUDIO_CHANNEL_INDEX_HDR">>>>,
      <<"AUDIO_CHANNEL_INDEX_MASK_24", ToWord(2^24 - 1), <<"AUDIO_CHANNEL_INDEX_HDR">>>>
    >>

\* audio-hal-enums.h lines 302-363
AUDIO_DEVICE_LIST_UNIQUE_DEF ==
    <<
      <<"AUDIO_DEVICE_NONE", W(\h0000, \h0000), <<>>>>,
      <<"AUDIO_DEVICE_OUT_EARPIECE", W(\h0000, \h0001), <<>>>>,
      <<"AUDIO_DEVICE_OUT_SPEAKER", W(\h0000, \h0002), <<>>>>,
      <<"AUDIO_DEVICE_OUT_WIRED_HEADSET", W(\h0000, \h0004), <<>>>>,
      <<"AUDIO_DEVICE_OUT_WIRED_HEADPHONE", W(\h0000, \h0008), <<>>>>,
      <<"AUDIO_DEVICE_OUT_BLUETOOTH_SCO", W(\h0000, \h0010), <<>>>>,
      <<"AUDIO_DEVICE_OUT_BLUETOOTH_SCO_HEADSET", W(\h0000, \h0020), <<>>>>,
      <<"AUDIO_DEVICE_OUT_BLUETOOTH_SCO_CARKIT", W(\h0000, \h0040), <<>>>>,
      <<"AUDIO_DEVICE_OUT_BLUETOOTH_A2DP", W(\h0000, \h0080), <<>>>>,
      <<"AUDIO_DEVICE_OUT_BLUETOOTH_A2DP_HEADPHONES", W(\h0000, \h0100), <<>>>>,
      <<"AUDIO_DEVICE_OUT_BLUETOOTH_A2DP_SPEAKER", W(\h0000, \h0200), <<>>>>,
      <<"AUDIO_DEVICE_OUT_HDMI", W(\h0000, \h0400), <<>>>>,
      <<"AUDIO_DEVICE_OUT_ANLG_DOCK_HEADSET", W(\h0000, \h0800), <<>>>>,
      <<"AUDIO_DEVICE_OUT_DGTL_DOCK_HEADSET", W(\h0000, \h1000), <<>>>>,
      <<"AUDIO_DEVICE_OUT_USB_ACCESSORY", W(\h0000, \h2000), <<>>>>,
      <<"AUDIO_DEVICE_OUT_USB_DEVICE", W(\h0000, \h4000), <<>>>>,
      <<"AUDIO_DEVICE_OUT_REMOTE_SUBMIX", W(\h0000, \h8000), <<>>>>,
      <<"AUDIO_DEVICE_OUT_TELEPHONY_TX", W(\h0001, \h0000), <<>>>>,
      <<"AUDIO_DEVICE_OUT_LINE", W(\h0002, \h0000), <<>>>>,
      <<"AUDIO_DEVICE_OUT_HDMI_ARC", W(\h0004, \h0000), <<>>>>,
      <<"AUDIO_DEVICE_OUT_SPDIF", W(\h0008, \h0000), <<>>>>,
      <<"AUDIO_DEVICE_OUT_FM", W(\h0010, \h0000), <<>>>>,
      <<"AUDIO_DEVICE_OUT_AUX_LINE", W(\h0020, \h0000), <<>>>>,
      <<"AUDIO_DEVICE_OUT_SPEAKER_SAFE", W(\h0040, \h0000), <<>>>>,
      <<"AUDIO_DEVICE_OUT_IP", W(\h0080, \h0000), <<>>>>,
      <<"AUDIO_DEVICE_OUT_BUS", W(\h0100, \h0000), <<>>>>,
      <<"AUDIO_DEVICE_OUT_PROXY", W(\h0200, \h0000), <<>>>>,
      <<"AUDIO_DEVICE_OUT_USB_HEADSET", W(\h0400, \h0000), <<>>>>,
      <<"AUDIO_DEVICE_OUT_HEARING_AID", W(\h0800, \h0000), <<>>>>,
      <<"AUDIO_DEVICE_OUT_ECHO_CANCELLER", W(\h1000, \h0000), <<>>>>,
      <<"AUDIO_DEVICE_OUT_BLE_HEADSET", W(\h2000, \h0000), <<>>>>,
      <<"AUDIO_DEVICE_OUT_BLE_SPEAKER", W(\h2000, \h0001), <<>>>>,
      <<"AUDIO_DEVICE_OUT_DEFAULT", W(\h0000, \h0000), <<"AUDIO_DEVICE_BIT_DEFAULT">>>>,
      <<"AUDIO_DEVICE_IN_COMMUNICATION", W(\h0000, \h0001), <<"AUDIO_DEVICE_BIT_IN">>>>,
      <<"AUDIO_DEVICE_IN_AMBIENT", W(\h0000, \h0002), <<"AUDIO_DEVICE_BIT_IN">>>>,
      <<"AUDIO_DEVICE_IN_BUILTIN_MIC", W(\h0000, \h0004), <<"AUDIO_DEVICE_BIT_IN">>>>,
      <<"AUDIO_DEVICE_IN_BLUETOOTH_SCO_HEADSET", W(\h0000, \h0008), <<"AUDIO_DEVICE_BIT_IN">>>>,
      <<"AUDIO_DEVICE_IN_WIRED_HEADSET", W(\h0000, \h0010), <<"AUDIO_DEVICE_BIT_IN">>>>,
      <<"AUDIO_DEVICE_IN_HDMI", W(\h0000, \h0020), <<"AUDIO_DEVICE_BIT_IN">>>>,
      <<"AUDIO_DEVICE_IN_TELEPHONY_RX", W(\h0000, \h0040), <<"AUDIO_DEVICE_BIT_IN">>>>,
      <<"AUDIO_DEVICE_IN_BACK_MIC", W(\h0000, \h0080), <<"AUDIO_DEVICE_BIT_IN">>>>,
      <<"AUDIO_DEVICE_IN_REMOTE_SUBMIX", W(\h0000, \h0100), <<"AUDIO_DEVICE_BIT_IN">>>>,
      <<"AUDIO_DEVICE_IN_ANLG_DOCK_HEADSET", W(\h0000, \h0200), <<"AUDIO_DEVICE_BIT_IN">>>>,
      <<"AUDIO_DEVICE_IN_DGTL_DOCK_HEADSET", W(\h0000, \h0400), <<"AUDIO_DEVICE_BIT_IN">>>>,
      <<"AUDIO_DEVICE_IN_USB_ACCESSORY", W(\h0000, \h0800), <<"AUDIO_DEVICE_BIT_IN">>>>,
      <<"AUDIO_DEVICE_IN_USB_DEVICE", W(\h0000, \h1000), <<"AUDIO_DEVICE_BIT_IN">>>>,
      <<"AUDIO_DEVICE_IN_FM_TUNER", W(\h0000, \h2000), <<"AUDIO_DEVICE_BIT_IN">>>>,
      <<"AUDIO_DEVICE_IN_TV_TUNER", W(\h0000, \h4000), <<"AUDIO_DEVICE_BIT_IN">>>>,
      <<"AUDIO_DEVICE_IN_LINE", W(\h0000, \h8000), <<"AUDIO_DEVICE_BIT_IN">>>>,
      <<"AUDIO_DEVICE_IN_SPDIF", W(\h0001, \h0000), <<"AUDIO_DEVICE_BIT_IN">>>>,
      <<"AUDIO_DEVICE_IN_BLUETOOTH_A2DP", W(\h0002, \h0000), <<"AUDIO_DEVICE_BIT_IN">>>>,
      <<"AUDIO_DEVICE_IN_LOOPBACK", W(\h0004, \h0000), <<"AUDIO_DEVICE_BIT_IN">>>>,
      <<"AUDIO_DEVICE_IN_IP", W(\h0008, \h0000), <<"AUDIO_DEVICE_BIT_IN">>>>,
      <<"AUDIO_DEVICE_IN_BUS", W(\h0010, \h0000), <<"AUDIO_DEVICE_BIT_IN">>>>,
      <<"AUDIO_DEVICE_IN_PROXY", W(\h0100, \h0000), <<"AUDIO_DEVICE_BIT_IN">>>>,
      <<"AUDIO_DEVICE_IN_USB_HEADSET", W(\h0200, \h0000), <<"AUDIO_DEVICE_BIT_IN">>>>,
      <<"AUDIO_DEVICE_IN_BLUETOOTH_BLE", W(\h0400, \h0000), <<"AUDIO_DEVICE_BIT_IN">>>>,
      <<"AUDIO_DEVICE_IN_HDMI_ARC", W(\h0800, \h0000), <<"AUDIO_DEVICE_BIT_IN">>>>,
      <<"AUDIO_DEVICE_IN_ECHO_REFERENCE", W(\h1000, \h0000), <<"AUDIO_DEVICE_BIT_IN">>>>,
      <<"AUDIO_DEVICE_IN_BLE_HEADSET", W(\h2000, \h0000), <<"AUDIO_DEVICE_BIT_IN">>>>,
      <<"AUDIO_DEVICE_IN_DEFAULT", W(\h0000, \h0000), <<"AUDIO_DEVICE_BIT_IN", "AUDIO_DEVICE_BIT_DEFAULT">>>>
    >>

\* audio-hal-enums.h lines 366-372
AUDIO_DEVICE_LIST_DEF ==
    AUDIO_DEVICE_LIST_UNIQUE_DEF \o <<
      <<"AUDIO_DEVICE_OUT_AUX_DIGITAL", W(\h0000, \h0000), <<"AUDIO_DEVICE_OUT_HDMI">>>>,
      <<"AUDIO_DEVICE_OUT_STUB", W(\h0000, \h0000), <<"AUDIO_DEVICE_OUT_DEFAULT">>>>,
      <<"AUDIO_DEVICE_IN_VOICE_CALL", W(\h0000, \h0000), <<"AUDIO_DEVICE_IN_TELEPHONY_RX">>>>,
      <<"AUDIO_DEVICE_IN_AUX_DIGITAL", W(\h0000, \h0000), <<"AUDIO_DEVICE_IN_HDMI">>>>,
      <<"AUDIO_DEVICE_IN_STUB", W(\h0000, \h0000), <<"AUDIO_DEVICE_IN_DEFAULT">>>>
    >>

\* audio-hal-enums.h lines 394-411
AUDIO_OUTPUT_FLAG_LIST_DEF ==
    <<
      <<"AUDIO_OUTPUT_FLAG_NONE", W(\h0000, \h0000), <<>>>>,
      <<"AUDIO_OUTPUT_FLAG_DIRECT", W(\h0000, \h0001), <<>>>>,
      <<"AUDIO_OUTPUT_FLAG_PRIMARY", W(\h0000, \h0002), <<>>>>,
      <<"AUDIO_OUTPUT_FLAG_FAST", W(\h0000, \h0004), <<>>>>,
      <<"AUDIO_OUTPUT_FLAG_DEEP_BUFFER", W(\h0000, \h0008), <<>>>>,
      <<"AUDIO_OUTPUT_FLAG_COMPRESS_OFFLOAD", W(\h0000, \h0010), <<>>>>,
      <<"AUDIO_OUTPUT_FLAG_NON_BLOCKING", W(\h0000, \h0020), <<>>>>,
      <<"AUDIO_OUTPUT_FLAG_HW_AV_SYNC", W(\h0000, \h0040), <<>>>>,
      <<"AUDIO_OUTPUT_FLAG_TTS", W(\h0000, \h0080), <<>>>>,
      <<"AUDIO_OUTPUT_FLAG_RAW", W(\h0000, \h0100), <<>>>>,
      <<"AUDIO_OUTPUT_FLAG_SYNC", W(\h0000, \h0200), <<>>>>,
      <<"AUDIO_OUTPUT_FLAG_IEC958_NONAUDIO", W(\h0000, \h0400), <<>>>>,
      <<"AUDIO_OUTPUT_FLAG_DIRECT_PCM", W(\h0000, \h2000), <<>>>>,
      <<"AUDIO_OUTPUT_FLAG_MMAP_NOIRQ", W(\h0000, \h4000), <<>>>>,
      <<"AUDIO_OUTPUT_FLAG_VOIP_RX", W(\h0000, \h8000), <<>>>>,
      <<"AUDIO_OUTPUT_FLAG_INCALL_MUSIC", W(\h0001, \h0000), <<>>>>,
      <<"AUDIO_OUTPUT_FLAG_GAPLESS_OFFLOAD", W(\h0002, \h0000), <<>>>>
    >>

\* audio-hal-enums.h lines 432-441
AUDIO_INPUT_FLAG_LIST_DEF ==
    <<
      <<"AUDIO_INPUT_FLAG_NONE", W(\h0000, \h0000), <<>>>>,
      <<"AUDIO_INPUT_FLAG_FAST", W(\h0000, \h0001), <<>>>>,
      <<"AUDIO_INPUT_FLAG_HW_HOTWORD", W(\h0000, \h0002), <<>>>>,
      <<"AUDIO_INPUT_FLAG_RAW", W(\h0000, \h0004), <<>>>>,
      <<"AUDIO_INPUT_FLAG_SYNC", W(\h0000, \h0008), <<>>>>,
      <<"AUDIO_INPUT_FLAG_MMAP_NOIRQ", W(\h0000, \h0010), <<>>>>,
      <<"AUDIO_INPUT_FLAG_VOIP_TX", W(\h0000, \h0020), <<>>>>,
      <<"AUDIO_INPUT_FLAG_HW_AV_SYNC", W(\h0000, \h0040), <<>>>>,
      <<"AUDIO_INPUT_FLAG_DIRECT", W(\h0000, \h0080), <<>>>>
    >>

\* audio-hal-enums.h lines 500-583
AUDIO_FORMAT_LIST_DEF ==
    <<
      <<"AUDIO_FORMAT_DEFAULT", W(\h0000, \h0000), <<"AUDIO_FORMAT_PCM_MAIN">>>>,
      <<"AUDIO_FORMAT_PCM_16_BIT", W(\h0000, \h0000), <<"AUDIO_FORMAT_PCM_MAIN", "AUDIO_FORMAT_PCM_SUB_16_BIT">>>>,
      <<"AUDIO_FORMAT_PCM_8_BIT", W(\h0000, \h0000), <<"AUDIO_FORMAT_PCM_MAIN", "AUDIO_FORMAT_PCM_SUB_8_BIT">>>>,
      <<"AUDIO_FORMAT_PCM_32_BIT", W(\h0000, \h0000), <<"AUDIO_FORMAT_PCM_MAIN", "AUDIO_FORMAT_PCM_SUB_32_BIT">>>>,
      <<"AUDIO_FORMAT_PCM_8_24_BIT", W(\h0000, \h0000), <<"AUDIO_FORMAT_PCM_MAIN", "AUDIO_FORMAT_PCM_SUB_8_24_BIT">>>>,
      <<"AUDIO_FORMAT_PCM_FLOAT", W(\h0000, \h0000), <<"AUDIO_FORMAT_PCM_MAIN", "AUDIO_FORMAT_PCM_SUB_FLOAT">>>>,
      <<"AUDIO_FORMAT_PCM_24_BIT_PACKED", W(\h0000, \h0000), <<"AUDIO_FORMAT_PCM_MAIN", "AUDIO_FORMAT_PCM_SUB_24_BIT_PACKED">>>>,
      <<"AUDIO_FORMAT_MP3", W(\h0100, \h0000), <<>>>>,
      <<"AUDIO_FORMAT_AMR_NB", W(\h0200, \h0000), <<>>>>,
      <<"AUDIO_FORMAT_AMR_WB", W(\h0300, \h0000), <<>>>>,
      <<"AUDIO_FORMAT_AAC", W(\h0400, \h0000), <<>>>>,
      <<"AUDIO_FORMAT_AAC_MAIN", W(\h0000, \h0000), <<"AUDIO_FORMAT_AAC", "AUDIO_FORMAT_AAC_SUB_MAIN">>>>,
      <<"AUDIO_FORMAT_AAC_LC", W(\h0000, \h0000), <<"AUDIO_FORMAT_AAC", "AUDIO_FORMAT_AAC_SUB_LC">>>>,
      <<"AUDIO_FORMAT_AAC_SSR", W(\h0000, \h0000), <<"AUDIO_FORMAT_AAC", "AUDIO_FORMAT_AAC_SUB_SSR">>>>,
      <<"AUDIO_FORMAT_AAC_LTP", W(\h0000, \h0000), <<"AUDIO_FORMAT_AAC", "AUDIO_FORMAT_AAC_SUB_LTP">>>>,
      <<"AUDIO_FORMAT_AAC_HE_V1", W(\h0000, \h0000), <<"AUDIO_FORMAT_AAC", "AUDIO_FORMAT_AAC_SUB_HE_V1">>>>,
      <<"AUDIO_FORMAT_AAC_SCALABLE", W(\h0000, \h0000), <<"AUDIO_FORMAT_AAC", "AUDIO_FORMAT_AAC_SUB_SCALABLE">>>>,
      <<"AUDIO_FORMAT_AAC_ERLC", W(\h0000, \h0000), <<"AUDIO_FORMAT_AAC", "AUDIO_FORMAT_AAC_SUB_ERLC">>>>,
      <<"AUDIO_FORMAT_AAC_LD", W(\h0000, \h0000), <<"AUDIO_FORMAT_AAC", "AUDIO_FORMAT_AAC_SUB_LD">>>>,
      <<"AUDIO_FORMAT_AAC_HE_V2", W(\h0000, \h0000), <<"AUDIO_FORMAT_AAC", "AUDIO_FORMAT_AAC_SUB_HE_V2">>>>,
      <<"AUDIO_FORMAT_AAC_ELD", W(\h0000, \h0000), <<"AUDIO_FORMAT_AAC", "AUDIO_FORMAT_AAC_SUB_ELD">>>>,
      <<"AUDIO_FORMAT_AAC_XHE", W(\h0000, \h0000), <<"AUDIO_FORMAT_AAC", "AUDIO_FORMAT_AAC_SUB_XHE">>>>,
      <<"AUDIO_FORMAT_HE_AAC_V1", W(\h0500, \h0000), <<>>>>,
      <<"AUDIO_FORMAT_HE_AAC_V2", W(\h0600, \h0000), <<>>>>,
      <<"AUDIO_FORMAT_VORBIS", W(\h0700, \h0000), <<>>>>,
      <<"AUDIO_FORMAT_OPUS", W(\h0800, \h0000), <<>>>>,
      <<"AUDIO_FORMAT_AC3", W(\h0900, \h0000), <<>>>>,
      <<"AUDIO_FORMAT_E_AC3", W(\h0A00, \h0000), <<>>>>,
      <<"AUDIO_FORMAT_E_AC3_JOC", W(\h0000, \h0000), <<"AUDIO_FORMAT_E_AC3", "AUDIO_FORMAT_E_AC3_SUB_JOC">>>>,
      <<"AUDIO_FORMAT_DTS", W(\h0B00, \h0000), <<>>>>,
      <<"AUDIO_FORMAT_DTS_HD", W(\h0C00, \h0000), <<>>>>,
      <<"AUDIO_FORMAT_IEC61937", W(\h0D00, \h0000), <<>>>>,
      <<"AUDIO_FORMAT_DOLBY_TRUEHD", W(\h0E00, \h0000), <<>>>>,
      <<"AUDIO_FORMAT_EVRC", W(\h1000, \h0000), <<>>>>,
      <<"AUDIO_FORMAT_EVRCB", W(\h1100, \h0000), <<>>>>,
      <<"AUDIO_FORMAT_EVRCWB", W(\h1200, \h0000), <<>>>>,
      <<"AUDIO_FORMAT_EVRCNW", W(\h1300, \h0000), <<>>>>,
      <<"AUDIO_FORMAT_AAC_ADIF", W(\h1400, \h0000), <<>>>>,
      <<"AUDIO_FORMAT_WMA", W(\h1500, \h0000), <<>>>>,
      <<"AUDIO_FORMAT_WMA_PRO", W(\h1600, \h0000), <<>>>>,
      <<"AUDIO_FORMAT_AMR_WB_PLUS", W(\h1700, \h0000), <<>>>>,
      <<"AUDIO_FORMAT_MP2", W(\h1800, \h0000), <<>>>>,
      <<"AUDIO_FORMAT_QCELP", W(\h1900, \h0000), <<>>>>,
      <<"AUDIO_FORMAT_DSD", W(\h1A00, \h0000), <<>>>>,
      <<"AUDIO_FORMAT_FLAC", W(\h1B00, \h0000), <<>>>>,
      <<"AUDIO_FORMAT_ALAC", W(\h1C00, \h0000), <<>>>>,
      <<"AUDIO_FORMAT_APE", W(\h1D00, \h0000), <<>>>>,
      <<"AUDIO_FORMAT_AAC_ADTS", W(\h1E00, \h0000), <<>>>>,
      <<"AUDIO_FORMAT_AAC_ADTS_MAIN", W(\h0000, \h0000), <<"AUDIO_FORMAT_AAC_ADTS", "AUDIO_FORMAT_AAC_SUB_MAIN">>>>,
      <<"AUDIO_FORMAT_AAC_ADTS_LC", W(\h0000, \h0000), <<"AUDIO_FORMAT_AAC_ADTS", "AUDIO_FORMAT_AAC_SUB_LC">>>>,
      <<"AUDIO_FORMAT_AAC_ADTS_SSR", W(\h0000, \h0000), <<"AUDIO_FORMAT_AAC_ADTS", "AUDIO_FORMAT_AAC_SUB_SSR">>>>,
      <<"AUDIO_FORMAT_AAC_ADTS_LTP", W(\h0000, \h0000), <<"AUDIO_FORMAT_AAC_ADTS", "AUDIO_FORMAT_AAC_SUB_LTP">>>>,
      <<"AUDIO_FORMAT_AAC_ADTS_HE_V1", W(\h0000, \h0000), <<"AUDIO_FORMAT_AAC_ADTS", "AUDIO_FORMAT_AAC_SUB_HE_V1">>>>,
      <<"AUDIO_FORMAT_AAC_ADTS_SCALABLE", W(\h0000, \h0000), <<"AUDIO_FORMAT_AAC_ADTS", "AUDIO_FORMAT_AAC_SUB_SCALABLE">>>>,
      <<"AUDIO_FORMAT_AAC_ADTS_ERLC", W(\h0000, \h0000), <<"AUDIO_FORMAT_AAC_ADTS", "AUDIO_FORMAT_AAC_SUB_ERLC">>>>,
      <<"AUDIO_FORMAT_AAC_ADTS_LD", W(\h0000, \h0000), <<"AUDIO_FORMAT_AAC_ADTS", "AUDIO_FORMAT_AAC_SUB_LD">>>>,
      <<"AUDIO_FORMAT_AAC_ADTS_HE_V2", W(\h0000, \h0000), <<"AUDIO_FORMAT_AAC_ADTS", "AUDIO_FORMAT_AAC_SUB_HE_V2">>>>,
      <<"AUDIO_FORMAT_AAC_ADTS_ELD", W(\h0000, \h0000), <<"AUDIO_FORMAT_AAC_ADTS", "AUDIO_FORMAT_AAC_SUB_ELD">>>>,
      <<"AUDIO_FORMAT_AAC_ADTS_XHE", W(\h0000, \h0000), <<"AUDIO_FORMAT_AAC_ADTS", "AUDIO_FORMAT_AAC_SUB_XHE">>>>,
      <<"AUDIO_FORMAT_SBC", W(\h1F00, \h0000), <<>>>>,
      <<"AUDIO_FORMAT_APTX", W(\h2000, \h0000), <<>>>>,
      <<"AUDIO_FORMAT_APTX_HD", W(\h2100, \h0000), <<>>>>,
      <<"AUDIO_FORMAT_AC4", W(\h2200, \h0000), <<>>>>,
      <<"AUDIO_FORMAT_LDAC", W(\h2300, \h0000), <<>>>>,
      <<"AUDIO_FORMAT_MAT", W(\h2400, \h0000), <<>>>>,
      <<"AUDIO_FORMAT_MAT_1_0", W(\h0000, \h0000), <<"AUDIO_FORMAT_MAT", "AUDIO_FORMAT_MAT_SUB_1_0">>>>,
      <<"AUDIO_FORMAT_MAT_2_0", W(\h0000, \h0000), <<"AUDIO_FORMAT_MAT", "AUDIO_FORMAT_MAT_SUB_2_0">>>>,
      <<"AUDIO_FORMAT_MAT_2_1", W(\h0000, \h0000), <<"AUDIO_FORMAT_MAT", "AUDIO_FORMAT_MAT_SUB_2_1">>>>,
      <<"AUDIO_FORMAT_AAC_LATM", W(\h2500, \h0000), <<>>>>,
      <<"AUDIO_FORMAT_AAC_LATM_LC", W(\h0000, \h0000), <<"AUDIO_FORMAT_AAC_LATM", "AUDIO_FORMAT_AAC_SUB_LC">>>>,
      <<"AUDIO_FORMAT_AAC_LATM_HE_V1", W(\h0000, \h0000), <<"AUDIO_FORMAT_AAC_LATM", "AUDIO_FORMAT_AAC_SUB_HE_V1">>>>,
      <<"AUDIO_FORMAT_AAC_LATM_HE_V2", W(\h0000, \h0000), <<"AUDIO_FORMAT_AAC_LATM", "AUDIO_FORMAT_AAC_SUB_HE_V2">>>>,
      <<"AUDIO_FORMAT_CELT", W(\h2600, \h0000), <<>>>>,
      <<"AUDIO_FORMAT_APTX_ADAPTIVE", W(\h2700, \h0000), <<>>>>,
      <<"AUDIO_FORMAT_LHDC", W(\h2800, \h0000), <<>>>>,
      <<"AUDIO_FORMAT_LHDC_LL", W(\h2900, \h0000), <<>>>>,
      <<"AUDIO_FORMAT_APTX_TWSP", W(\h2A00, \h0000), <<>>>>,
      <<"AUDIO_FORMAT_LC3", W(\h2B00, \h0000), <<>>>>,
      <<"AUDIO_FORMAT_MPEGH", W(\h2C00, \h0000), <<>>>>,
      <<"AUDIO_FORMAT_MPEGH_BL_L3", W(\h0000, \h0000), <<"AUDIO_FORMAT_MPEGH", "AUDIO_FORMAT_MPEGH_SUB_BL_L3">>>>,
      <<"AUDIO_FORMAT_MPEGH_BL_L4", W(\h0000, \h0000), <<"AUDIO_FORMAT_MPEGH", "AUDIO_FORMAT_MPEGH_SUB_BL_L4">>>>,
      <<"AUDIO_FORMAT_MPEGH_LC_L3", W(\h0000, \h0000), <<"AUDIO_FORMAT_MPEGH", "AUDIO_FORMAT_MPEGH_SUB_LC_L3">>>>,
      <<"AUDIO_FORMAT_MPEGH_LC_L4", W(\h0000, \h0000), <<"AUDIO_FORMAT_MPEGH", "AUDIO_FORMAT_MPEGH_SUB_LC_L4">>>>
    >>

\* audio-hal-enums.h lines 609-612
AUDIO_GAIN_MODE_LIST_DEF ==
    <<
      <<"AUDIO_GAIN_MODE_JOINT", W(\h0000, \h0001), <<>>>>,
      <<"AUDIO_GAIN_MODE_CHANNELS", W(\h0000, \h0002), <<>>>>,
      <<"AUDIO_GAIN_MODE_RAMP", W(\h0000, \h0004), <<>>>>
    >>

\* audio-hal-enums.h lines 633-647
AUDIO_SOURCE_LIST_NO_SYS_DEF ==
    <<
      <<"AUDIO_SOURCE_DEFAULT", W(\h0000, \h0000), <<>>>>,
      <<"AUDIO_SOURCE_MIC", W(\h0000, \h0001), <<>>>>,
      <<"AUDIO_SOURCE_VOICE_UPLINK", W(\h0000, \h0002), <<>>>>,
      <<"AUDIO_SOURCE_VOICE_DOWNLINK", W(\h0000, \h0003), <<>>>>,
      <<"AUDIO_SOURCE_VOICE_CALL", W(\h0000, \h0004), <<>>>>,
      <<"AUDIO_SOURCE_CAMCORDER", W(\h0000, \h0005), <<>>>>,
      <<"AUDIO_SOURCE_VOICE_RECOGNITION", W(\h0000, \h0006), <<>>>>,
      <<"AUDIO_SOURCE_VOICE_COMMUNICATION", W(\h0000, \h0007), <<>>>>,
      <<"AUDIO_SOURCE_REMOTE_SUBMIX", W(\h0000, \h0008), <<>>>>,
      <<"AUDIO_SOURCE_UNPROCESSED", W(\h0000, \h0009), <<>>>>,
      <<"AUDIO_SOURCE_VOICE_PERFORMANCE", W(\h0000, \h000A), <<>>>>,
      <<"AUDIO_SOURCE_ECHO_REFERENCE", W(\h0000, \h07CD), <<>>>>,
      <<"AUDIO_SOURCE_FM_TUNER", W(\h0000, \h07CE), <<>>>>,
      <<"AUDIO_SOURCE_HOTWORD", W(\h0000, \h07CF), <<>>>>
    >>

\* audio-hal-enums.h lines 675-690
AUDIO_STREAM_LIST_NO_SYS_DEF ==
    <<
      <<"AUDIO_STREAM_VOICE_CALL", W(\h0000, \h0000), <<>>>>,
      <<"AUDIO_STREAM_SYSTEM", W(\h0000, \h0001), <<>>>>,
      <<"AUDIO_STREAM_RING", W(\h0000, \h0002), <<>>>>,
      <<"AUDIO_STREAM_MUSIC", W(\h0000, \h0003), <<>>>>,
      <<"AUDIO_STREAM_ALARM", W(\h0000, \h0004), <<>>>>,
      <<"AUDIO_STREAM_NOTIFICATION", W(\h0000, \h0005), <<>>>>,
      <<"AUDIO_STREAM_BLUETOOTH_SCO", W(\h0000, \h0006), <<>>>>,
      <<"AUDIO_STREAM_ENFORCED_AUDIBLE", W(\h0000, \h0007), <<>>>>,
      <<"AUDIO_STREAM_DTMF", W(\h0000, \h0008), <<>>>>,
      <<"AUDIO_STREAM_TTS", W(\h0000, \h0009), <<>>>>,
      <<"AUDIO_STREAM_ACCESSIBILITY", W(\h0000, \h000A), <<>>>>,
      <<"AUDIO_STREAM_ASSISTANT", W(\h0000, \h000B), <<>>>>,
      <<"AUDIO_STREAM_REROUTING", W(\h0000, \h000C), <<>>>>,
      <<"AUDIO_STREAM_PATCH", W(\h0000, \h000D), <<>>>>,
      <<"AUDIO_STREAM_CALL_ASSISTANT", W(\h0000, \h000E), <<>>>>
    >>

\* audio-hal-enums.h lines 719-737
AUDIO_USAGE_LIST_NO_SYS_DEF ==
    <<
      <<"AUDIO_USAGE_UNKNOWN", W(\h0000, \h0000), <<>>>>,
      <<"AUDIO_USAGE_MEDIA", W(\h0000, \h0001), <<>>>>,
      <<"AUDIO_USAGE_VOICE_COMMUNICATION", W(\h0000, \h0002), <<>>>>,
      <<"AUDIO_USAGE_VOICE_COMMUNICATION_SIGNALLING", W(\h0000, \h0003), <<>>>>,
      <<"AUDIO_USAGE_ALARM", W(\h0000, \h0004), <<>>>>,
      <<"AUDIO_USAGE_NOTIFICATION", W(\h0000, \h0005), <<>>>>,
      <<"AUDIO_USAGE_NOTIFICATION_TELEPHONY_RINGTONE", W(\h0000, \h0006), <<>>>>,
      <<"AUDIO_USAGE_ASSISTANCE_ACCESSIBILITY", W(\h0000, \h000B), <<>>>>,
      <<"AUDIO_USAGE_ASSISTANCE_NAVIGATION_GUIDANCE", W(\h0000, \h000C), <<>>>>,
      <<"AUDIO_USAGE_ASSISTANCE_SONIFICATION", W(\h0000, \h000D), <<>>>>,
      <<"AUDIO_USAGE_GAME", W(\h0000, \h000E), <<>>>>,
      <<"AUDIO_USAGE_VIRTUAL_SOURCE", W(\h0000, \h000F), <<>>>>,
      <<"AUDIO_USAGE_ASSISTANT", W(\h0000, \h0010), <<>>>>,
      <<"AUDIO_USAGE_CALL_ASSISTANT", W(\h0000, \h0011), <<>>>>,
      <<"AUDIO_USAGE_EMERGENCY", W(\h0000, \h03E8), <<>>>>,
      <<"AUDIO_USAGE_SAFETY", W(\h0000, \h03E9), <<>>>>,
      <<"AUDIO_USAGE_VEHICLE_STATUS", W(\h0000, \h03EA), <<>>>>,
      <<"AUDIO_USAGE_ANNOUNCEMENT", W(\h0000, \h03EB), <<>>>>
    >>

\* audio-hal-enums.h lines 270-275: a simple enum, relying on default values
AUDIO_CONTENT_TYPE_LIST_DEF ==
    <<
      <<"AUDIO_CONTENT_TYPE_UNKNOWN">>,
      <<"AUDIO_CONTENT_TYPE_SPEECH">>,
      <<"AUDIO_CONTENT_TYPE_MUSIC">>,
      <<"AUDIO_CONTENT_TYPE_MOVIE">>,
      <<"AUDIO_CONTENT_TYPE_SONIFICATION">>
    >>

Builds == {"vendor", "framework"}

\* audio-hal-enums.h lines 648-654
AUDIO_SOURCE_LIST_DEF(b) ==
    IF b = "vendor" THEN AUDIO_SOURCE_LIST_NO_SYS_DEF
    ELSE AUDIO_SOURCE_LIST_NO_SYS_DEF \o <<
      <<"AUDIO_SOURCE_INVALID", ToWord(-1), <<>>>>
    >>

\* audio-hal-enums.h lines 691-697
AUDIO_STREAM_LIST_DEF(b) ==
    IF b = "vendor" THEN AUDIO_STREAM_LIST_NO_SYS_DEF
    ELSE AUDIO_STREAM_LIST_NO_SYS_DEF \o <<
      <<"AUDIO_STREAM_DEFAULT", ToWord(-1), <<>>>>
    >>

\* audio-hal-enums.h lines 738-747
AUDIO_USAGE_LIST_DEF(b) ==
    IF b = "vendor" THEN AUDIO_USAGE_LIST_NO_SYS_DEF
    ELSE AUDIO_USAGE_LIST_NO_SYS_DEF \o <<
      <<"AUDIO_USAGE_NOTIFICATION_COMMUNICATION_REQUEST", ToWord(7), <<>>>>,
      <<"AUDIO_USAGE_NOTIFICATION_COMMUNICATION_INSTANT", ToWord(8), <<>>>>,
      <<"AUDIO_USAGE_NOTIFICATION_COMMUNICATION_DELAYED", ToWord(9), <<>>>>,
      <<"AUDIO_USAGE_NOTIFICATION_EVENT", ToWord(10), <<>>>>
    >>

----------------------------------------------------------------------------
(* The enums: AUDIO_DEFINE_ENUM_SYMBOL_V(symbol, value) is 'symbol = value,' *)
(* and AUDIO_DEFINE_ENUM_SYMBOL(symbol) is 'symbol,'.                        *)

Symbols(list) == {list[i][1] : i \in DOMAIN list}

\* AUDIO_DEFINE_ENUM_SYMBOL: the enumerators take the default values 0, 1, ...
AUDIO_DEFINE_ENUM_SYMBOL(list) ==
    [i \in DOMAIN list |-> <<list[i][1], ToWord(i - 1), <<>>>>]

\* AUDIO_DEFINE_BIT_MASK_V over a list: 'symbol | symbol | ... | 0'
AUDIO_DEFINE_BIT_MASK_V(list) == [i \in DOMAIN list |-> list[i][1]]

\* the anonymous enums at lines 170-174, 297-300 and 464-498
AnonymousEnums ==
    <<
      <<"AUDIO_CHANNEL_INDEX_HDR", W(\h8000, \h0000), <<>>>>,
      <<"AUDIO_DEVICE_BIT_IN", W(\h8000, \h0000), <<>>>>,
      <<"AUDIO_DEVICE_BIT_DEFAULT", W(\h4000, \h0000), <<>>>>,
      <<"AUDIO_FORMAT_PCM_MAIN", W(\h0000, \h0000), <<>>>>,
      <<"AUDIO_FORMAT_PCM_SUB_16_BIT", W(\h0000, \h0001), <<>>>>,
      <<"AUDIO_FORMAT_PCM_SUB_8_BIT", W(\h0000, \h0002), <<>>>>,
      <<"AUDIO_FORMAT_PCM_SUB_32_BIT", W(\h0000, \h0003), <<>>>>,
      <<"AUDIO_FORMAT_PCM_SUB_8_24_BIT", W(\h0000, \h0004), <<>>>>,
      <<"AUDIO_FORMAT_PCM_SUB_FLOAT", W(\h0000, \h0005), <<>>>>,
      <<"AUDIO_FORMAT_PCM_SUB_24_BIT_PACKED", W(\h0000, \h0006), <<>>>>,
      <<"AUDIO_FORMAT_AAC_SUB_MAIN", W(\h0000, \h0001), <<>>>>,
      <<"AUDIO_FORMAT_AAC_SUB_LC", W(\h0000, \h0002), <<>>>>,
      <<"AUDIO_FORMAT_AAC_SUB_SSR", W(\h0000, \h0004), <<>>>>,
      <<"AUDIO_FORMAT_AAC_SUB_LTP", W(\h0000, \h0008), <<>>>>,
      <<"AUDIO_FORMAT_AAC_SUB_HE_V1", W(\h0000, \h0010), <<>>>>,
      <<"AUDIO_FORMAT_AAC_SUB_SCALABLE", W(\h0000, \h0020), <<>>>>,
      <<"AUDIO_FORMAT_AAC_SUB_ERLC", W(\h0000, \h0040), <<>>>>,
      <<"AUDIO_FORMAT_AAC_SUB_LD", W(\h0000, \h0080), <<>>>>,
      <<"AUDIO_FORMAT_AAC_SUB_HE_V2", W(\h0000, \h0100), <<>>>>,
      <<"AUDIO_FORMAT_AAC_SUB_ELD", W(\h0000, \h0200), <<>>>>,
      <<"AUDIO_FORMAT_AAC_SUB_XHE", W(\h0000, \h0300), <<>>>>,
      <<"AUDIO_FORMAT_E_AC3_SUB_JOC", W(\h0000, \h0001), <<>>>>,
      <<"AUDIO_FORMAT_MAT_SUB_1_0", W(\h0000, \h0001), <<>>>>,
      <<"AUDIO_FORMAT_MAT_SUB_2_0", W(\h0000, \h0002), <<>>>>,
      <<"AUDIO_FORMAT_MAT_SUB_2_1", W(\h0000, \h0003), <<>>>>,
      <<"AUDIO_FORMAT_MPEGH_SUB_BL_L3", W(\h0000, \h0013), <<>>>>,
      <<"AUDIO_FORMAT_MPEGH_SUB_BL_L4", W(\h0000, \h0014), <<>>>>,
      <<"AUDIO_FORMAT_MPEGH_SUB_LC_L3", W(\h0000, \h0023), <<>>>>,
      <<"AUDIO_FORMAT_MPEGH_SUB_LC_L4", W(\h0000, \h0024), <<>>>>
    >>

\* lines 205-221
audio_channel_mask_t ==
    AUDIO_CHANNEL_OUT_DISCRETE_CHANNEL_LIST_DEF \o
    AUDIO_CHANNEL_IN_DISCRETE_CHANNEL_LIST_DEF \o
    AUDIO_CHANNEL_IN_OUT_MASK_LIST_DEF \o
    AUDIO_CHANNEL_OUT_MASK_LIST_DEF \o
    AUDIO_CHANNEL_IN_MASK_LIST_DEF \o
    AUDIO_CHANNEL_INDEX_MASK_LIST_DEF \o
    <<
      <<"AUDIO_CHANNEL_OUT_ALL", Zero,
        AUDIO_DEFINE_BIT_MASK_V(AUDIO_CHANNEL_OUT_DISCRETE_CHANNEL_LIST_DEF)>>,
      <<"AUDIO_CHANNEL_HAPTIC_ALL", Zero,
        <<"AUDIO_CHANNEL_OUT_HAPTIC_B", "AUDIO_CHANNEL_OUT_HAPTIC_A">>>>,
      <<"AUDIO_CHANNEL_IN_ALL", Zero,
        AUDIO_DEFINE_BIT_MASK_V(AUDIO_CHANNEL_IN_DISCRETE_CHANNEL_LIST_DEF)>>,
      <<"AUDIO_CHANNEL_INVALID", W(\hC000, \h0000), <<>>>>
    >>

\* lines 277-279
audio_content_type_t == AUDIO_DEFINE_ENUM_SYMBOL(AUDIO_CONTENT_TYPE_LIST_DEF)

\* lines 374-376
audio_devices_t == AUDIO_DEVICE_LIST_DEF

\* lines 413-415
audio_output_flags_t == AUDIO_OUTPUT_FLAG_LIST_DEF

\* lines 443-445
audio_input_flags_t == AUDIO_INPUT_FLAG_LIST_DEF

\* lines 585-591
audio_format_t ==
    AUDIO_FORMAT_LIST_DEF \o
    <<
      <<"AUDIO_FORMAT_INVALID", W(\hFFFF, \hFFFF), <<>>>>,
      <<"AUDIO_FORMAT_PCM", Zero, <<"AUDIO_FORMAT_PCM_MAIN">>>>
    >>

\* lines 614-616
audio_gain_mode_t == AUDIO_GAIN_MODE_LIST_DEF

\* lines 656-658
audio_source_t(b) == AUDIO_SOURCE_LIST_DEF(b)

\* lines 699-701
audio_stream_type_t(b) == AUDIO_STREAM_LIST_DEF(b)

\* lines 749-751
audio_usage_t(b) == AUDIO_USAGE_LIST_DEF(b)

\* every enumerator visible in a build, in declaration order
Enumerators(b) ==
    AnonymousEnums \o audio_channel_mask_t \o audio_content_type_t \o
    audio_devices_t \o audio_output_flags_t \o audio_input_flags_t \o
    audio_format_t \o audio_gain_mode_t \o audio_source_t(b) \o
    audio_stream_type_t(b) \o audio_usage_t(b)

\* the value the compiler gives an enumerator: its literal or-ed with the
\* values of the enumerators its initializer names
RECURSIVE EnumValueIn(_, _)
EnumValueIn(defs, sym) ==
    LET e == defs[CHOOSE i \in DOMAIN defs : defs[i][1] = sym]
    IN  OrAll(e[2], [i \in DOMAIN e[3] |-> EnumValueIn(defs, e[3][i])])

EnumTable ==
    [b \in Builds |->
        [sym \in Symbols(Enumerators(b)) |-> EnumValueIn(Enumerators(b), sym)]]

EnumValue(b, sym) == EnumTable[b][sym]

----------------------------------------------------------------------------
(* The converters *)

\* variant of AUDIO_DEFINE_STRINGIFY_CASE: the value 0 is given no name
RECURSIVE StringifyCaseZeroUnnamed(_, _, _)
StringifyCaseZeroUnnamed(b, list, x) ==
    IF list = <<>> \/ x = Zero THEN ""
    ELSE IF EnumValue(b, Head(list)[1]) = x THEN Head(list)[1]
    ELSE StringifyCaseZeroUnnamed(b, Tail(list), x)

\* variant of AUDIO_DEFINE_STRINGIFY_CASE: the switch is over a 16-bit
\* truncation of the value, so only the low halves are compared
RECURSIVE StringifyCaseLowHalf(_, _, _)
StringifyCaseLowHalf(b, list, x) ==
    IF list = <<>> THEN ""
    ELSE IF EnumValue(b, Head(list)[1])[2] = x[2] THEN Head(list)[1]
    ELSE StringifyCaseLowHalf(b, Tail(list), x)

\* AUDIO_DEFINE_STRINGIFY_CASE over a list, inside 'switch (t)', with the
\* 'default: return ""' or the 'return ""' that follows the switch
RECURSIVE AUDIO_DEFINE_STRINGIFY_CASE(_, _, _)
AUDIO_DEFINE_STRINGIFY_CASE(b, list, x) ==
    IF list = <<>> THEN ""
    ELSE IF EnumValue(b, Head(list)[1]) = x THEN Head(list)[1]
    ELSE AUDIO_DEFINE_STRINGIFY_CASE(b, Tail(list), x)

\* variant of AUDIO_DEFINE_PARSE_CASE: the match returns true without '*t = symbol'
RECURSIVE ParseCaseWithoutStore(_, _, _, _)
ParseCaseWithoutStore(b, list, in, out) ==
    IF list = <<>> THEN [ret |-> FALSE, t |-> out]
    ELSE IF in = Head(list)[1] THEN [ret |-> TRUE, t |-> out]
    ELSE ParseCaseWithoutStore(b, Tail(list), in, out)

\* variant of AUDIO_DEFINE_PARSE_CASE: '*t' is cleared before 'return false'
RECURSIVE ParseCaseClearingOnFailure(_, _, _, _)
ParseCaseClearingOnFailure(b, list, in, out) ==
    IF list = <<>> THEN [ret |-> FALSE, t |-> Zero]
    ELSE IF in = Head(list)[1] THEN [ret |-> TRUE, t |-> EnumValue(b, Head(list)[1])]
    ELSE ParseCaseClearingOnFailure(b, Tail(list), in, out)

\* AUDIO_DEFINE_PARSE_CASE over a list, with the closing 'return false':
\*   if (strcmp(s, "symbol") == 0) { *t = symbol; return true; } else ...
\* The result is the returned bool and the content of *t afterwards.
RECURSIVE AUDIO_DEFINE_PARSE_CASE(_, _, _, _)
AUDIO_DEFINE_PARSE_CASE(b, list, in, out) ==
    IF list = <<>> THEN [ret |-> FALSE, t |-> out]
    ELSE IF in = Head(list)[1] THEN [ret |-> TRUE, t |-> EnumValue(b, Head(list)[1])]
    ELSE AUDIO_DEFINE_PARSE_CASE(b, Tail(list), in, out)

audio_channel_out_mask_to_string(b, x) ==
    AUDIO_DEFINE_STRINGIFY_CASE(b,
        AUDIO_CHANNEL_IN_OUT_MASK_LIST_DEF \o AUDIO_CHANNEL_OUT_MASK_LIST_UNIQUE_DEF, x)

audio_channel_in_mask_to_string(b, x) ==
    AUDIO_DEFINE_STRINGIFY_CASE(b,
        AUDIO_CHANNEL_IN_OUT_MASK_LIST_DEF \o AUDIO_CHANNEL_IN_MASK_LIST_DEF, x)

audio_channel_index_mask_to_string(b, x) ==
    AUDIO_DEFINE_STRINGIFY_CASE(b,
        AUDIO_CHANNEL_IN_OUT_MASK_LIST_DEF \o AUDIO_CHANNEL_INDEX_MASK_LIST_DEF, x)

\* variant of audio_channel_mask_from_string: the discrete channel lists are parsed too
audio_channel_mask_from_string_with_channels(b, in, out) ==
    AUDIO_DEFINE_PARSE_CASE(b,
        AUDIO_CHANNEL_IN_OUT_MASK_LIST_DEF \o AUDIO_CHANNEL_OUT_MASK_LIST_DEF \o
        AUDIO_CHANNEL_IN_MASK_LIST_DEF \o AUDIO_CHANNEL_INDEX_MASK_LIST_DEF \o
        AUDIO_CHANNEL_OUT_DISCRETE_CHANNEL_LIST_DEF \o
        AUDIO_CHANNEL_IN_DISCRETE_CHANNEL_LIST_DEF, in, out)

\* variant of audio_channel_mask_from_string: the index mask list is left out
audio_channel_mask_from_string_no_index(b, in, out) ==
    AUDIO_DEFINE_PARSE_CASE(b,
        AUDIO_CHANNEL_IN_OUT_MASK_LIST_DEF \o AUDIO_CHANNEL_OUT_MASK_LIST_DEF \o
        AUDIO_CHANNEL_IN_MASK_LIST_DEF, in, out)

audio_channel_mask_from_string(b, in, out) ==
    AUDIO_DEFINE_PARSE_CASE(b,
        AUDIO_CHANNEL_IN_OUT_MASK_LIST_DEF \o AUDIO_CHANNEL_OUT_MASK_LIST_DEF \o
        AUDIO_CHANNEL_IN_MASK_LIST_DEF \o AUDIO_CHANNEL_INDEX_MASK_LIST_DEF, in, out)

audio_content_type_to_string(b, x) ==
    AUDIO_DEFINE_STRINGIFY_CASE(b, AUDIO_CONTENT_TYPE_LIST_DEF, x)

audio_content_type_from_string(b, in, out) ==
    AUDIO_DEFINE_PARSE_CASE(b, AUDIO_CONTENT_TYPE_LIST_DEF, in, out)

audio_device_to_string(b, x) ==
    AUDIO_DEFINE_STRINGIFY_CASE(b, AUDIO_DEVICE_LIST_UNIQUE_DEF, x)

\* variant of audio_device_from_string: parses AUDIO_DEVICE_LIST_UNIQUE_DEF, as
\* audio_device_to_string does, so that no alias is accepted
audio_device_from_string_unique_only(b, in, out) ==
    AUDIO_DEFINE_PARSE_CASE(b, AUDIO_DEVICE_LIST_UNIQUE_DEF, in, out)

audio_device_from_string(b, in, out) ==
    AUDIO_DEFINE_PARSE_CASE(b, AUDIO_DEVICE_LIST_DEF, in, out)

audio_output_flag_to_string(b, x) ==
    AUDIO_DEFINE_STRINGIFY_CASE(b, AUDIO_OUTPUT_FLAG_LIST_DEF, x)

audio_output_flag_from_string(b, in, out) ==
    AUDIO_DEFINE_PARSE_CASE(b, AUDIO_OUTPUT_FLAG_LIST_DEF, in, out)

audio_input_flag_to_string(b, x) ==
    AUDIO_DEFINE_STRINGIFY_CASE(b, AUDIO_INPUT_FLAG_LIST_DEF, x)

audio_input_flag_from_string(b, in, out) ==
    AUDIO_DEFINE_PARSE_CASE(b, AUDIO_INPUT_FLAG_LIST_DEF, in, out)

audio_format_to_string(b, x) ==
    AUDIO_DEFINE_STRINGIFY_CASE(b, AUDIO_FORMAT_LIST_DEF, x)

\* variant of audio_format_from_string: every enumerator of audio_format_t is parsed
audio_format_from_string_whole_enum(b, in, out) ==
    AUDIO_DEFINE_PARSE_CASE(b, audio_format_t, in, out)

audio_format_from_string(b, in, out) ==
    AUDIO_DEFINE_PARSE_CASE(b, AUDIO_FORMAT_LIST_DEF, in, out)

audio_gain_mode_to_string(b, x) ==
    AUDIO_DEFINE_STRINGIFY_CASE(b, AUDIO_GAIN_MODE_LIST_DEF, x)

audio_gain_mode_from_string(b, in, out) ==
    AUDIO_DEFINE_PARSE_CASE(b, AUDIO_GAIN_MODE_LIST_DEF, in, out)

audio_source_to_string(b, x) ==
    AUDIO_DEFINE_STRINGIFY_CASE(b, AUDIO_SOURCE_LIST_DEF(b), x)

audio_source_from_string(b, in, out) ==
    AUDIO_DEFINE_PARSE_CASE(b, AUDIO_SOURCE_LIST_NO_SYS_DEF, in, out)

audio_stream_type_to_string(b, x) ==
    AUDIO_DEFINE_STRINGIFY_CASE(b, AUDIO_STREAM_LIST_DEF(b), x)

\* variant of audio_stream_type_from_string: parses AUDIO_STREAM_LIST_DEF, the
\* list audio_stream_type_to_string uses
audio_stream_type_from_string_sys(b, in, out) ==
    AUDIO_DEFINE_PARSE_CASE(b, AUDIO_STREAM_LIST_DEF(b), in, out)

audio_stream_type_from_string(b, in, out) ==
    AUDIO_DEFINE_PARSE_CASE(b, AUDIO_STREAM_LIST_NO_SYS_DEF, in, out)

audio_usage_to_string(b, x) ==
    AUDIO_DEFINE_STRINGIFY_CASE(b, AUDIO_USAGE_LIST_DEF(b), x)

\* variant of audio_usage_from_string: parses AUDIO_USAGE_LIST_DEF, the list
\* audio_usage_to_string uses
audio_usage_from_string_sys(b, in, out) ==
    AUDIO_DEFINE_PARSE_CASE(b, AUDIO_USAGE_LIST_DEF(b), in, out)

audio_usage_from_string(b, in, out) ==
    AUDIO_DEFINE_PARSE_CASE(b, AUDIO_USAGE_LIST_NO_SYS_DEF, in, out)

----------------------------------------------------------------------------
(* Callers of the converters *)

ToStringFns ==
    {"audio_channel_out_mask_to_string", "audio_channel_in_mask_to_string",
     "audio_channel_index_mask_to_string", "audio_content_type_to_string",
     "audio_device_to_string", "audio_output_flag_to_string",
     "audio_input_flag_to_string", "audio_format_to_string",
     "audio_gain_mode_to_string", "audio_source_to_string",
     "audio_stream_type_to_string", "audio_usage_to_string"}

FromStringFns ==
    {"audio_channel_mask_from_string", "audio_content_type_from_string",
     "audio_device_from_string", "audio_output_flag_from_string",
     "audio_input_flag_from_string", "audio_format_from_string",
     "audio_gain_mode_from_string", "audio_source_from_string",
     "audio_stream_type_from_string", "audio_usage_from_string"}

\* a call f(x) of a to_string function in build b
to_string(f, b, x) ==
    CASE f = "audio_channel_out_mask_to_string" -> audio_channel_out_mask_to_string(b, x)
      [] f = "audio_channel_in_mask_to_string" -> audio_channel_in_mask_to_string(b, x)
      [] f = "audio_channel_index_mask_to_string" -> audio_channel_index_mask_to_string(b, x)
      [] f = "audio_content_type_to_string" -> audio_content_type_to_string(b, x)
      [] f = "audio_device_to_string" -> audio_device_to_string(b, x)
      [] f = "audio_output_flag_to_string" -> audio_output_flag_to_string(b, x)
      [] f = "audio_input_flag_to_string" -> audio_input_flag_to_string(b, x)
      [] f = "audio_format_to_string" -> audio_format_to_string(b, x)
      [] f = "audio_gain_mode_to_string" -> audio_gain_mode_to_string(b, x)
      [] f = "audio_source_to_string" -> audio_source_to_string(b, x)
      [] f = "audio_stream_type_to_string" -> audio_stream_type_to_string(b, x)
      [] f = "audio_usage_to_string" -> audio_usage_to_string(b, x)

\* a call f(in, &t) of a from_string function in build b, with *t = out before
from_string(f, b, in, out) ==
    CASE f = "audio_channel_mask_from_string" -> audio_channel_mask_from_string(b, in, out)
      [] f = "audio_content_type_from_string" -> audio_content_type_from_string(b, in, out)
      [] f = "audio_device_from_string" -> audio_device_from_string(b, in, out)
      [] f = "audio_output_flag_from_string" -> audio_output_flag_from_string(b, in, out)
      [] f = "audio_input_flag_from_string" -> audio_input_flag_from_string(b, in, out)
      [] f = "audio_format_from_string" -> audio_format_from_string(b, in, out)
      [] f = "audio_gain_mode_from_string" -> audio_gain_mode_from_string(b, in, out)
      [] f = "audio_source_from_string" -> audio_source_from_string(b, in, out)
      [] f = "audio_stream_type_from_string" -> audio_stream_type_from_string(b, in, out)
      [] f = "audio_usage_from_string" -> audio_usage_from_string(b, in, out)

\* the from_string function of the enum a to_string function projects
ParserOf(f) ==
    CASE f \in {"audio_channel_out_mask_to_string", "audio_channel_in_mask_to_string",
                "audio_channel_index_mask_to_string"} -> "audio_channel_mask_from_string"
      [] f = "audio_content_type_to_string" -> "audio_content_type_from_string"
      [] f = "audio_device_to_string" -> "audio_device_from_string"
      [] f = "audio_output_flag_to_string" -> "audio_output_flag_from_string"
      [] f = "audio_input_flag_to_string" -> "audio_input_flag_from_string"
      [] f = "audio_format_to_string" -> "audio_format_from_string"
      [] f = "audio_gain_mode_to_string" -> "audio_gain_mode_from_string"
      [] f = "audio_source_to_string" -> "audio_source_from_string"
      [] f = "audio_stream_type_to_string" -> "audio_stream_type_from_string"
      [] f = "audio_usage_to_string" -> "audio_usage_from_string"

\* the to_string functions of the enum a from_string function parses
ProjectorsOf(g) == {f \in ToStringFns : ParserOf(f) = g}

(* Inputs of the callers *)

\* largest N of the names AUDIO_CHANNEL_INDEX_MASK_<N> that callers try
MaxIndexProbe == 27

AllSymbols == UNION {Symbols(Enumerators(b)) : b \in Builds}

IndexProbeNames == {"AUDIO_CHANNEL_INDEX_MASK_" \o ToString(n) : n \in 0..MaxIndexProbe}

\* strings that are no symbol: wrong case, cut short, extended, numbers
MalformedInputs ==
    {"", " ", "AUDIO_", "0x3", "3", "-1",
     "audio_channel_out_stereo", "Audio_Channel_Out_Stereo", "AUDIO_CHANNEL_OUT_STERE",
     "AUDIO_CHANNEL_OUT_STEREO_", "AUDIO_CHANNEL_out_MONO", "AUDIO_CHANNEL_NONe",
     "AUDIO_CHANNEL_INDEX_MASK_", "AUDIO_CHANNEL_INDEX_MASK_03", "audio_channel_index_mask_3",
     "AUDIO_CONTENT_TYPE_music", "AUDIO_DEVICE_OUT_speaker", "audio_device_none",
     "AUDIO_OUTPUT_FLAG_fast", "AUDIO_INPUT_FLAG_Fast", "audio_format_pcm_16_bit",
     "AUDIO_FORMAT_PCM_16", "AUDIO_GAIN_MODE_joint", "AUDIO_SOURCE_mic",
     "AUDIO_STREAM_music", "AUDIO_USAGE_media", "AUDIO_USAGE_MEDI"}

Inputs ==
    AllSymbols \cup IndexProbeNames \cup MalformedInputs
    \cup {sym \o " " : sym \in AllSymbols}

\* what the output location of a from_string call may hold before the call
InitialOutputs == {Zero, W(\hDEAD, \hBEEF)}

\* the values to_string functions are called with: every enumerator's value,
\* and some values no enumerator has
Values ==
    UNION {{EnumValue(b, sym) : sym \in Symbols(Enumerators(b))} : b \in Builds}
    \cup InitialOutputs
    \cup {W(\h8000, \h0000), W(\h8100, \h0000), W(\h7FFF, \hFFFF), W(\h0000, \hFFFF)}

CodecInit ==
    /\ build \in Builds
    /\ pc = "start"
    /\ fn = "none"
    /\ s = ""
    /\ t0 = Zero
    /\ t = Zero
    /\ ret = FALSE
    /\ v = Zero
    /\ str = ""

\* bool ok = f(in, &t), with t holding 'out' before
CallFromString ==
    /\ pc = "start"
    /\ \E f \in FromStringFns, in \in Inputs, out \in InitialOutputs :
        /\ fn' = f
        /\ s' = in
        /\ t0' = out
        /\ ret' = from_string(f, build, in, out).ret
        /\ t' = from_string(f, build, in, out).t
    /\ pc' = "parsed"
    /\ UNCHANGED <<build, v, str>>
    /\ UNCHANGED mutexVars

\* const char* str = f(x)
CallToString ==
    /\ pc = "start"
    /\ \E f \in ToStringFns, x \in Values :
        /\ fn' = f
        /\ v' = x
        /\ str' = to_string(f, build, x)
    /\ pc' = "projected"
    /\ UNCHANGED <<build, s, t0, t, ret>>
    /\ UNCHANGED mutexVars

\* the string a to_string function returned is parsed back:
\* the from_string function of the same enum is called with it
ParseProjected ==
    /\ pc = "projected"
    /\ \E out \in InitialOutputs :
        /\ t0' = out
        /\ ret' = from_string(ParserOf(fn), build, str, out).ret
        /\ t' = from_string(ParserOf(fn), build, str, out).t
    /\ fn' = ParserOf(fn)
    /\ s' = str
    /\ pc' = "reparsed"
    /\ UNCHANGED <<build, v, str>>
    /\ UNCHANGED mutexVars

\* the value a from_string function wrote is projected:
\* a to_string function of the same enum is called with it
ProjectParsed ==
    /\ pc = "parsed"
    /\ ret
    /\ \E f \in ProjectorsOf(fn) :
        /\ fn' = f
        /\ str' = to_string(f, build, t)
    /\ v' = t
    /\ pc' = "reprojected"
    /\ UNCHANGED <<build, s, t0, t, ret>>
    /\ UNCHANGED mutexVars

----------------------------------------------------------------------------
(* audio_utils/mutex.cpp: mutex_get_enable_flag                             *)
(*                                                                          *)
(* 'enable' is a function-local static with a dynamic initializer: the      *)
(* first thread to reach its declaration runs the initializer, threads that *)
(* reach it meanwhile block until the initialization has completed, and     *)
(* later calls skip it.                                                     *)

\* number of threads that call mutex_get_enable_flag
NumThreads == 3

\* number of calls each thread makes at most
MaxCalls == 2

Threads == 1..NumThreads

\* variant of StaticGuardEnter: the static is initialized without a lock (as
\* with -fno-threadsafe-statics): every thread that finds it uninitialized
\* runs the initializer
StaticGuardEnterUnlocked(g) ==
    CASE g = "done" -> [pc |-> "return", guard |-> "done"]
      [] g = "uninit" -> [pc |-> "eval", guard |-> "uninit"]
      [] g = "running" -> [pc |-> "wait", guard |-> "running"]

\* variant of StaticGuardEnter: 'enable' is not static, every call runs the lambda
StaticGuardEnterEveryCall(g) ==
    CASE g = "done" -> [pc |-> "eval", guard |-> "done"]
      [] g = "uninit" -> [pc |-> "eval", guard |-> "running"]
      [] g = "running" -> [pc |-> "wait", guard |-> "running"]

\* variant of StaticGuardEnter: a thread that finds the initialization in
\* progress does not block and goes on to 'return enable'
StaticGuardEnterNoWait(g) ==
    CASE g = "done" -> [pc |-> "return", guard |-> "done"]
      [] g = "uninit" -> [pc |-> "eval", guard |-> "running"]
      [] g = "running" -> [pc |-> "return", guard |-> "running"]

\* a thread reaches 'static const bool enable = ...' with the guard in state g:
\* where it goes, and the guard afterwards
StaticGuardEnter(g) ==
    CASE g = "done" -> [pc |-> "return", guard |-> "done"]
      [] g = "uninit" -> [pc |-> "eval", guard |-> "running"]
      [] g = "running" -> [pc |-> "wait", guard |-> "running"]

MutexInit ==
    /\ source \in BOOLEAN
    /\ guard = "uninit"
    /\ enable = <<>>
    /\ evals = 0
    /\ logged = 0
    /\ tpc = [th \in Threads |-> "idle"]
    /\ flag = [th \in Threads |-> <<>>]
    /\ calls = [th \in Threads |-> 0]
    /\ rets = [th \in Threads |-> <<>>]
    /\ waited = 0
    /\ stale = FALSE

\* a thread calls mutex_get_enable_flag()
Call(th) ==
    /\ tpc[th] = "idle"
    /\ calls[th] < MaxCalls
    /\ calls' = [calls EXCEPT ![th] = @ + 1]
    /\ tpc' = [tpc EXCEPT ![th] = "guard"]
    /\ UNCHANGED <<source, guard, enable, evals, logged, flag, rets, waited, stale>>
    /\ UNCHANGED codecVars

\* line 25: the declaration of the static is reached
GuardEnter(th) ==
    /\ tpc[th] = "guard"
    /\ tpc' = [tpc EXCEPT ![th] = StaticGuardEnter(guard).pc]
    /\ guard' = StaticGuardEnter(guard).guard
    /\ waited' = IF StaticGuardEnter(guard).pc = "wait" THEN waited + 1 ELSE waited
    /\ UNCHANGED <<source, enable, evals, logged, flag, calls, rets, stale>>
    /\ UNCHANGED codecVars

\* line 25: a blocked thread goes on once the initialization has completed
GuardWake(th) ==
    /\ tpc[th] = "wait"
    /\ guard = "done"
    /\ tpc' = [tpc EXCEPT ![th] = "return"]
    /\ UNCHANGED <<source, guard, enable, evals, logged, flag, calls, rets, waited, stale>>
    /\ UNCHANGED codecVars

\* line 26: const bool flag = com::android::media::audio::flags::mutex_priority_inheritance();
Eval(th) ==
    /\ tpc[th] = "eval"
    /\ tpc' = [tpc EXCEPT ![th] = "log"]
    /\ flag' = [flag EXCEPT ![th] = <<source>>]
    /\ evals' = evals + 1
    /\ UNCHANGED <<source, guard, enable, logged, calls, rets, waited, stale>>
    /\ UNCHANGED codecVars

\* line 27: ALOGD(...)
Log(th) ==
    /\ tpc[th] = "log"
    /\ tpc' = [tpc EXCEPT ![th] = "init"]
    /\ logged' = logged + 1
    /\ UNCHANGED <<source, guard, enable, evals, flag, calls, rets, waited, stale>>
    /\ UNCHANGED codecVars

\* variant of InitDone: 'enable' is initialized but the guard is not released
InitDoneWithoutRelease(th) ==
    /\ tpc[th] = "init"
    /\ tpc' = [tpc EXCEPT ![th] = "return"]
    /\ enable' = flag[th]
    /\ guard' = guard
    /\ UNCHANGED <<source, evals, logged, flag, calls, rets, waited, stale>>
    /\ UNCHANGED codecVars

\* lines 28-29: the lambda returns flag, 'enable' is initialized with it
InitDone(th) ==
    /\ tpc[th] = "init"
    /\ tpc' = [tpc EXCEPT ![th] = "return"]
    /\ enable' = flag[th]
    /\ guard' = "done"
    /\ UNCHANGED <<source, evals, logged, flag, calls, rets, waited, stale>>
    /\ UNCHANGED codecVars

\* line 30: return enable;
Return(th) ==
    /\ tpc[th] = "return"
    /\ tpc' = [tpc EXCEPT ![th] = "idle"]
    /\ rets' = [rets EXCEPT ![th] = Append(@, enable[1])]
    /\ stale' = (stale \/ (rets[th] # <<>> /\ enable[1] # source))
    /\ UNCHANGED <<source, guard, enable, evals, logged, flag, calls, waited>>
    /\ UNCHANGED codecVars

\* the environment changes the value of the flag
SourceChange ==
    /\ source' = ~source
    /\ UNCHANGED <<guard, enable, evals, logged, tpc, flag, calls, rets, waited, stale>>
    /\ UNCHANGED codecVars

----------------------------------------------------------------------------
Init == CodecInit /\ MutexInit

Next ==
    \/ CallFromString
    \/ CallToString
    \/ ParseProjected
    \/ ProjectParsed

Spec == Init /\ [][Next]_vars

MutexNext ==
    \/ \E th \in Threads : Call(th)
    \/ \E th \in Threads : GuardEnter(th)
    \/ \E th \in Threads : GuardWake(th)
    \/ \E th \in Threads : Eval(th)
    \/ \E th \in Threads : Log(th)
    \/ \E th \in Threads : InitDone(th)
    \/ \E th \in Threads : Return(th)
    \/ SourceChange

MutexSpec == Init /\ [][MutexNext]_vars

\* the steps of one thread inside mutex_get_enable_flag (lines 25-30)
ThreadStep(th) ==
    \/ GuardEnter(th)
    \/ GuardWake(th)
    \/ Eval(th)
    \/ Log(th)
    \/ InitDone(th)
    \/ Return(th)

\* MutexSpec with threads that are scheduled fairly: a thread inside the
\* function that can take a step eventually takes one (the flag query and the
\* log call return, a blocked thread is woken when the guard is released).
\* Nothing obliges a thread to call, or the flag to change.
FairMutexSpec ==
    /\ Init
    /\ [][MutexNext]_vars
    /\ \A th \in Threads : WF_vars(ThreadStep(th))

----------------------------------------------------------------------------
(* Properties of the converters, checked under Spec *)

ChannelParser == "audio_channel_mask_from_string"

ChannelProjectors ==
    {"audio_channel_out_mask_to_string", "audio_channel_in_mask_to_string",
     "audio_channel_index_mask_to_string"}

\* the enums with framework-only enumerators, their converters, and the
\* framework-only enumerators with their values
SysDomains ==
    { [from |-> "audio_source_from_string", to |-> "audio_source_to_string",
       syms |-> ("AUDIO_SOURCE_INVALID" :> W(\hFFFF, \hFFFF))],
      [from |-> "audio_stream_type_from_string", to |-> "audio_stream_type_to_string",
       syms |-> ("AUDIO_STREAM_DEFAULT" :> W(\hFFFF, \hFFFF))],
      [from |-> "audio_usage_from_string", to |-> "audio_usage_to_string",
       syms |-> ("AUDIO_USAGE_NOTIFICATION_COMMUNICATION_REQUEST" :> W(0, 7)
                 @@ "AUDIO_USAGE_NOTIFICATION_COMMUNICATION_INSTANT" :> W(0, 8)
                 @@ "AUDIO_USAGE_NOTIFICATION_COMMUNICATION_DELAYED" :> W(0, 9)
                 @@ "AUDIO_USAGE_NOTIFICATION_EVENT" :> W(0, 10))] }

FrameworkOnlySymbols == UNION {DOMAIN d.syms : d \in SysDomains}

FrameworkOnlyUsage ==
    (CHOOSE d \in SysDomains : d.from = "audio_usage_from_string").syms

\* C1 as stated: round trip.  In every enum and both builds, whenever a
\* to_string function returns a non-empty string for a value v, parsing that
\* string with the enum's from_string function succeeds and writes exactly v.
C1_RoundTripAsStated ==
    (pc = "reparsed" /\ str # "") => (ret /\ t = v)

\* C1 amended: the round trip holds for every value whose projection is
\* non-empty and is not a framework-only symbol; a framework-only symbol is
\* projected in the framework build only, and parsing it fails and leaves the
\* output location unchanged.
C1_RoundTrip ==
    (pc = "reparsed" /\ str # "") =>
        IF str \in FrameworkOnlySymbols
        THEN build = "framework" /\ ~ret /\ t = t0
        ELSE ret /\ t = v

\* a value with bit 31 set was projected and parsed back over another value
C1_Witness ==
    /\ pc = "reparsed"
    /\ str # ""
    /\ ret
    /\ t = v
    /\ t0 # v
    /\ v[1] >= 32768

\* C2 as stated: visibility gate.  audio_usage_from_string fails on a
\* framework-only usage symbol in the vendor build and succeeds on it in the
\* framework build, where audio_usage_to_string of the parsed value returns
\* the same string.
C2_VisibilityGateAsStated ==
    /\ (pc = "parsed" /\ fn = "audio_usage_from_string" /\ s \in DOMAIN FrameworkOnlyUsage)
         => (ret <=> build = "framework")
    /\ (pc = "reprojected" /\ fn = "audio_usage_to_string" /\ build = "framework"
           /\ s \in DOMAIN FrameworkOnlyUsage)
         => str = s

\* C2 amended: audio_usage_from_string fails on a framework-only usage symbol
\* in the vendor build and in the framework build alike, leaving the output
\* location unchanged; in the framework build audio_usage_to_string of the
\* symbol's value (7, 8, 9, 10) returns that symbol.
C2_VisibilityGate ==
    /\ (pc = "parsed" /\ fn = "audio_usage_from_string" /\ s \in DOMAIN FrameworkOnlyUsage)
         => (~ret /\ t = t0)
    /\ \A sym \in DOMAIN FrameworkOnlyUsage :
         (pc = "projected" /\ fn = "audio_usage_to_string" /\ build = "framework"
            /\ v = FrameworkOnlyUsage[sym])
         => str = sym

\* the framework build refused a framework-only usage symbol
C2_Witness ==
    /\ pc = "parsed"
    /\ fn = "audio_usage_from_string"
    /\ build = "framework"
    /\ s = "AUDIO_USAGE_NOTIFICATION_EVENT"
    /\ ~ret
    /\ t = t0
    /\ t0 # Zero

\* C3: no string -> enum conversion exists for the framework-only values.
\* audio_source_from_string, audio_stream_type_from_string and
\* audio_usage_from_string return false for every framework-only symbol in both
\* builds, while in the framework build the matching to_string function
\* returns that symbol for the framework-only value.
C3_NoParseOfFrameworkOnly ==
    \A d \in SysDomains : \A sym \in DOMAIN d.syms :
        /\ (pc \in {"parsed", "reparsed"} /\ fn = d.from /\ s = sym) => ~ret
        /\ (pc = "projected" /\ fn = d.to /\ build = "framework" /\ v = d.syms[sym])
             => str = sym

\* the framework build projected AUDIO_STREAM_DEFAULT and refused to parse it
C3_Witness ==
    /\ pc = "reparsed"
    /\ build = "framework"
    /\ fn = "audio_stream_type_from_string"
    /\ v = W(\hFFFF, \hFFFF)
    /\ str = "AUDIO_STREAM_DEFAULT"
    /\ s = str
    /\ ~ret

\* the aliases, each with its canonical symbol and the converters of its enum
Aliases ==
    LET chan(c) == [canon |-> c, from |-> ChannelParser,
                    to |-> "audio_channel_out_mask_to_string"]
        dev(c) == [canon |-> c, from |-> "audio_device_from_string",
                   to |-> "audio_device_to_string"]
    IN  "AUDIO_CHANNEL_OUT_5POINT1_BACK" :> chan("AUDIO_CHANNEL_OUT_5POINT1")
        @@ "AUDIO_CHANNEL_OUT_QUAD_BACK" :> chan("AUDIO_CHANNEL_OUT_QUAD")
        @@ "AUDIO_DEVICE_OUT_AUX_DIGITAL" :> dev("AUDIO_DEVICE_OUT_HDMI")
        @@ "AUDIO_DEVICE_OUT_STUB" :> dev("AUDIO_DEVICE_OUT_DEFAULT")
        @@ "AUDIO_DEVICE_IN_VOICE_CALL" :> dev("AUDIO_DEVICE_IN_TELEPHONY_RX")
        @@ "AUDIO_DEVICE_IN_AUX_DIGITAL" :> dev("AUDIO_DEVICE_IN_HDMI")
        @@ "AUDIO_DEVICE_IN_STUB" :> dev("AUDIO_DEVICE_IN_DEFAULT")

\* C4: aliases are accepted but never produced.  Parsing an alias succeeds
\* and writes the value that parsing its canonical symbol writes; projecting
\* that value returns the canonical symbol; no to_string function ever
\* returns an alias.
C4_Aliases ==
    /\ str \notin DOMAIN Aliases
    /\ \A a \in DOMAIN Aliases :
        /\ (pc = "parsed" /\ fn = Aliases[a].from /\ s = a)
             => /\ ret
                /\ from_string(fn, build, Aliases[a].canon, t0).ret
                /\ t = from_string(fn, build, Aliases[a].canon, t0).t
        /\ (pc = "reprojected" /\ fn = Aliases[a].to /\ s = a)
             => str = Aliases[a].canon

\* AUDIO_DEVICE_IN_STUB was parsed and its value projected
C4_Witness ==
    /\ pc = "reprojected"
    /\ fn = "audio_device_to_string"
    /\ s = "AUDIO_DEVICE_IN_STUB"
    /\ t = W(\hC000, \h0000)
    /\ str = "AUDIO_DEVICE_IN_DEFAULT"

SentinelSymbols == {"AUDIO_CHANNEL_INVALID", "AUDIO_FORMAT_INVALID", "AUDIO_FORMAT_PCM"}

C6_CompositeAsStated ==
    /\ (pc = "parsed" /\ fn = ChannelParser
           /\ s \in {"AUDIO_CHANNEL_OUT_FRONT_LEFT", "AUDIO_CHANNEL_OUT_FRONT_RIGHT"})
         => ret
    /\ (pc = "parsed" /\ fn = ChannelParser /\ s = "AUDIO_CHANNEL_OUT_STEREO")
         => LET l == from_string(fn, build, "AUDIO_CHANNEL_OUT_FRONT_LEFT", t0)
                r == from_string(fn, build, "AUDIO_CHANNEL_OUT_FRONT_RIGHT", t0)
            IN  ret /\ l.ret /\ r.ret /\ t = Or(l.t, r.t) /\ t = W(0, 3)

\* C6 amended: decoding "AUDIO_CHANNEL_OUT_STEREO" yields 0x3, the bitwise OR
\* of the enumerators AUDIO_CHANNEL_OUT_FRONT_LEFT (0x1) and
\* AUDIO_CHANNEL_OUT_FRONT_RIGHT (0x2); the strings
\* "AUDIO_CHANNEL_OUT_FRONT_LEFT" and "AUDIO_CHANNEL_OUT_FRONT_RIGHT" themselves
\* are not decoded: audio_channel_mask_from_string returns false for them.
C6_Composite ==
    /\ (pc = "parsed" /\ fn = ChannelParser
           /\ s \in {"AUDIO_CHANNEL_OUT_FRONT_LEFT", "AUDIO_CHANNEL_OUT_FRONT_RIGHT"})
         => (~ret /\ t = t0)
    /\ (pc = "parsed" /\ fn = ChannelParser /\ s = "AUDIO_CHANNEL_OUT_STEREO")
         => /\ ret
            /\ EnumValue(build, "AUDIO_CHANNEL_OUT_FRONT_LEFT") = W(0, 1)
            /\ EnumValue(build, "AUDIO_CHANNEL_OUT_FRONT_RIGHT") = W(0, 2)
            /\ t = Or(EnumValue(build, "AUDIO_CHANNEL_OUT_FRONT_LEFT"),
                      EnumValue(build, "AUDIO_CHANNEL_OUT_FRONT_RIGHT"))
            /\ t = W(0, 3)

\* "AUDIO_CHANNEL_OUT_STEREO" was decoded over a non-zero output location
C6_Witness ==
    /\ pc = "parsed"
    /\ fn = ChannelParser
    /\ s = "AUDIO_CHANNEL_OUT_STEREO"
    /\ ret
    /\ t0 # Zero
    /\ t = W(0, 3)

\* the largest N of AUDIO_CHANNEL_INDEX_MASK_<N>
IndexMaskMax == 24

\* C7: indexed mask formula.  For every N in 1..24,
\* audio_channel_mask_from_string("AUDIO_CHANNEL_INDEX_MASK_<N>") succeeds and
\* yields 0x80000000 | (2^N - 1) as a 32-bit value (N = 3: 0x80000007); no
\* name AUDIO_CHANNEL_INDEX_MASK_<N> with N outside 1..24 parses.
C7_IndexedMaskFormula ==
    (pc = "parsed" /\ fn = ChannelParser) =>
        /\ \A n \in 0..MaxIndexProbe :
             s = "AUDIO_CHANNEL_INDEX_MASK_" \o ToString(n) =>
                IF n \in 1..IndexMaskMax
                THEN ret /\ t = W(32768 + ((2^n - 1) \div 65536), (2^n - 1) % 65536)
                ELSE ~ret /\ t = t0
        /\ s = "AUDIO_CHANNEL_INDEX_MASK_3" => t = W(\h8000, \h0007)

\* the largest index mask was decoded
C7_Witness ==
    /\ pc = "parsed"
    /\ fn = ChannelParser
    /\ s = "AUDIO_CHANNEL_INDEX_MASK_24"
    /\ ret
    /\ t = W(\h80FF, \hFFFF)

\* the symbols a from_string function compares its input with
ParseSymbols(f, b) ==
    CASE f = "audio_channel_mask_from_string" ->
            Symbols(AUDIO_CHANNEL_IN_OUT_MASK_LIST_DEF) \cup
            Symbols(AUDIO_CHANNEL_OUT_MASK_LIST_DEF) \cup
            Symbols(AUDIO_CHANNEL_IN_MASK_LIST_DEF) \cup
            Symbols(AUDIO_CHANNEL_INDEX_MASK_LIST_DEF)
      [] f = "audio_content_type_from_string" -> Symbols(AUDIO_CONTENT_TYPE_LIST_DEF)
      [] f = "audio_device_from_string" -> Symbols(AUDIO_DEVICE_LIST_DEF)
      [] f = "audio_output_flag_from_string" -> Symbols(AUDIO_OUTPUT_FLAG_LIST_DEF)
      [] f = "audio_input_flag_from_string" -> Symbols(AUDIO_INPUT_FLAG_LIST_DEF)
      [] f = "audio_format_from_string" -> Symbols(AUDIO_FORMAT_LIST_DEF)
      [] f = "audio_gain_mode_from_string" -> Symbols(AUDIO_GAIN_MODE_LIST_DEF)
      [] f = "audio_source_from_string" -> Symbols(AUDIO_SOURCE_LIST_NO_SYS_DEF)
      [] f = "audio_stream_type_from_string" -> Symbols(AUDIO_STREAM_LIST_NO_SYS_DEF)
      [] f = "audio_usage_from_string" -> Symbols(AUDIO_USAGE_LIST_NO_SYS_DEF)

\* C10: parse failure is a value, not a side effect.  A from_string function
\* returns true, and writes the symbol's value to *t, exactly when its input
\* is character for character a symbol of its parse table; on every other
\* input it returns false and leaves *t as it was.
C10_ParseFailureLeavesOutput ==
    pc \in {"parsed", "reparsed"} =>
        /\ ret <=> s \in ParseSymbols(fn, build)
        /\ ret => t = EnumValue(build, s)
        /\ ~ret => t = t0

\* a symbol in the wrong case was refused and a non-zero output location kept
C10_Witness ==
    /\ pc = "parsed"
    /\ fn = ChannelParser
    /\ s = "audio_channel_out_stereo"
    /\ ~ret
    /\ t0 = W(\hDEAD, \hBEEF)
    /\ t = t0

\* the symbols with a case label in a to_string function
ProjectSymbols(f, b) ==
    CASE f = "audio_channel_out_mask_to_string" ->
            Symbols(AUDIO_CHANNEL_IN_OUT_MASK_LIST_DEF) \cup
            Symbols(AUDIO_CHANNEL_OUT_MASK_LIST_UNIQUE_DEF)
      [] f = "audio_channel_in_mask_to_string" ->
            Symbols(AUDIO_CHANNEL_IN_OUT_MASK_LIST_DEF) \cup
            Symbols(AUDIO_CHANNEL_IN_MASK_LIST_DEF)
      [] f = "audio_channel_index_mask_to_string" ->
            Symbols(AUDIO_CHANNEL_IN_OUT_MASK_LIST_DEF) \cup
            Symbols(AUDIO_CHANNEL_INDEX_MASK_LIST_DEF)
      [] f = "audio_content_type_to_string" -> Symbols(AUDIO_CONTENT_TYPE_LIST_DEF)
      [] f = "audio_device_to_string" -> Symbols(AUDIO_DEVICE_LIST_UNIQUE_DEF)
      [] f = "audio_output_flag_to_string" -> Symbols(AUDIO_OUTPUT_FLAG_LIST_DEF)
      [] f = "audio_input_flag_to_string" -> Symbols(AUDIO_INPUT_FLAG_LIST_DEF)
      [] f = "audio_format_to_string" -> Symbols(AUDIO_FORMAT_LIST_DEF)
      [] f = "audio_gain_mode_to_string" -> Symbols(AUDIO_GAIN_MODE_LIST_DEF)
      [] f = "audio_source_to_string" -> Symbols(AUDIO_SOURCE_LIST_DEF(b))
      [] f = "audio_stream_type_to_string" -> Symbols(AUDIO_STREAM_LIST_DEF(b))
      [] f = "audio_usage_to_string" -> Symbols(AUDIO_USAGE_LIST_DEF(b))

\* C11: projection is total and exact.  For every enum and every 32-bit
\* value, to_string returns a symbol of its projection table whose value is
\* exactly the input, and it returns the empty string if and only if no symbol
\* of that table has the input as its value; it has no other outcome.
C11_ProjectionTotalExact ==
    pc \in {"projected", "reprojected"} =>
        /\ str # "" => (str \in ProjectSymbols(fn, build) /\ EnumValue(build, str) = v)
        /\ str = "" <=> (\A sym \in ProjectSymbols(fn, build) : EnumValue(build, sym) # v)

\* a value that differs from AUDIO_DEVICE_NONE in bit 31 only has no projection
C11_Witness ==
    /\ pc = "projected"
    /\ fn = "audio_device_to_string"
    /\ v = W(\h8000, \h0000)
    /\ EnumValue(build, "AUDIO_DEVICE_NONE") = W(0, 0)
    /\ str = ""

Directions == {"out", "in", "index"}

\* the mask symbols of one direction's table
DirectionSymbols(d) ==
    CASE d = "out" -> Symbols(AUDIO_CHANNEL_OUT_MASK_LIST_DEF)
      [] d = "in" -> Symbols(AUDIO_CHANNEL_IN_MASK_LIST_DEF)
      [] d = "index" -> Symbols(AUDIO_CHANNEL_INDEX_MASK_LIST_DEF)

DirectionProjector(d) ==
    CASE d = "out" -> "audio_channel_out_mask_to_string"
      [] d = "in" -> "audio_channel_in_mask_to_string"
      [] d = "index" -> "audio_channel_index_mask_to_string"

\* C12 as stated: channel mask parsing is per direction.  A parse is for one
\* direction and fails on a symbol that belongs only to another direction's
\* table, so that the function that has accepted a mask name of one direction
\* accepts no mask name of the other two.
C12_ParsePerDirectionAsStated ==
    \A d \in Directions :
        (pc = "parsed" /\ fn = ChannelParser /\ ret /\ s \in DirectionSymbols(d)) =>
            \A e \in Directions \ {d} : \A x \in DirectionSymbols(e) :
                ~from_string(fn, build, x, t0).ret

\* C12 amended: channel mask parsing is not per direction.  The one entry
\* point audio_channel_mask_from_string accepts the mask names of all three
\* directions; only projection is per direction, and the to_string function of
\* one direction returns the empty string for the value of a mask symbol of
\* another direction's table.
C12_OneParserForAllDirections ==
    /\ \A d \in Directions :
         (pc = "parsed" /\ fn = ChannelParser /\ s \in DirectionSymbols(d)) => ret
    /\ \A d \in Directions :
         (pc = "reprojected" /\ fn \in ChannelProjectors /\ s \in DirectionSymbols(d)
            /\ fn # DirectionProjector(d)) => str = ""

\* an input mask name was parsed by the function that also parses an output
\* and an index mask name
C12_Witness ==
    /\ pc = "parsed"
    /\ fn = ChannelParser
    /\ s = "AUDIO_CHANNEL_IN_STEREO"
    /\ ret
    /\ from_string(fn, build, "AUDIO_CHANNEL_OUT_STEREO", t0).ret
    /\ from_string(fn, build, "AUDIO_CHANNEL_INDEX_MASK_2", t0).ret

DiscreteChannelSymbols ==
    Symbols(AUDIO_CHANNEL_OUT_DISCRETE_CHANNEL_LIST_DEF) \cup
    Symbols(AUDIO_CHANNEL_IN_DISCRETE_CHANNEL_LIST_DEF)

\* C13: discrete channels are not parseable.  audio_channel_mask_from_string
\* returns false and leaves the output location unchanged for every discrete
\* channel symbol (AUDIO_CHANNEL_OUT_FRONT_LEFT ... AUDIO_CHANNEL_OUT_HAPTIC_B,
\* AUDIO_CHANNEL_IN_LEFT ... AUDIO_CHANNEL_IN_TOP_RIGHT), also when a mask
\* with the same value is parseable, as AUDIO_CHANNEL_OUT_MONO is for
\* AUDIO_CHANNEL_OUT_FRONT_LEFT.
C13_DiscreteChannelsNotParsed ==
    /\ (pc \in {"parsed", "reparsed"} /\ fn = ChannelParser /\ s \in DiscreteChannelSymbols)
          => (~ret /\ t = t0)
    /\ (pc = "parsed" /\ fn = ChannelParser /\ s = "AUDIO_CHANNEL_OUT_MONO")
          => (ret /\ t = EnumValue(build, "AUDIO_CHANNEL_OUT_FRONT_LEFT"))

\* AUDIO_CHANNEL_OUT_FRONT_LEFT was refused over a non-zero output location,
\* while the mask of the same value parses
C13_Witness ==
    /\ pc = "parsed"
    /\ fn = ChannelParser
    /\ s = "AUDIO_CHANNEL_OUT_FRONT_LEFT"
    /\ ~ret
    /\ t0 = W(\hDEAD, \hBEEF)
    /\ t = t0
    /\ from_string(fn, build, "AUDIO_CHANNEL_OUT_MONO", t0) =
           [ret |-> TRUE, t |-> EnumValue(build, s)]

\* the symbols of a to_string function's table that have the value x
SymbolsOfValue(f, b, x) == {sym \in ProjectSymbols(f, b) : EnumValue(b, sym) = x}

\* C14: within each projection table (output, input and index masks, each
\* with AUDIO_CHANNEL_NONE, content type, the unique device list, output
\* flags, input flags, format, gain mode, source, stream type and usage, in
\* both builds) the values are pairwise distinct: no value is the value of two
\* symbols of the table.
C14_TableValuesDistinct ==
    pc \in {"projected", "reprojected"} =>
        /\ Cardinality(SymbolsOfValue(fn, build, v)) <= 1
        /\ str # "" => SymbolsOfValue(fn, build, v) = {str}

\* the value shared by AUDIO_DEVICE_OUT_DEFAULT and its alias
\* AUDIO_DEVICE_OUT_STUB has one symbol in the unique device list
C14_Witness ==
    /\ pc = "projected"
    /\ fn = "audio_device_to_string"
    /\ v = EnumValue(build, "AUDIO_DEVICE_OUT_STUB")
    /\ str = "AUDIO_DEVICE_OUT_DEFAULT"
    /\ SymbolsOfValue(fn, build, v) = {str}

\* the positions of the bits set in a word
BitPositions(w) ==
    {i \in 0..15 : (w[2] \div 2^i) % 2 = 1} \cup
    {i + 16 : i \in {k \in 0..15 : (w[1] \div 2^k) % 2 = 1}}

OutDiscreteValues ==
    {EnumValue(build, sym) : sym \in Symbols(AUDIO_CHANNEL_OUT_DISCRETE_CHANNEL_LIST_DEF)}

InDiscreteValues ==
    {EnumValue(build, sym) : sym \in Symbols(AUDIO_CHANNEL_IN_DISCRETE_CHANNEL_LIST_DEF)}

HapticBits == {28, 29}

UsedBits(values) == UNION {BitPositions(w) : w \in values}

\* the discrete channel values are single bits, the output ones within
\* bits 0 to hi or haptic, with bits 0 and hi in use, the input ones within
\* bits 2 to 22, with bits 2 and 22 in use
DiscreteChannelBits(hi) ==
    /\ (pc = "projected" /\ v \in OutDiscreteValues) =>
          /\ Cardinality(BitPositions(v)) = 1
          /\ BitPositions(v) \subseteq (0..hi) \cup HapticBits
          /\ 0 \in UsedBits(OutDiscreteValues)
          /\ hi \in UsedBits(OutDiscreteValues)
          /\ HapticBits \subseteq UsedBits(OutDiscreteValues)
    /\ (pc = "projected" /\ v \in InDiscreteValues) =>
          /\ Cardinality(BitPositions(v)) = 1
          /\ BitPositions(v) \subseteq 2..22
          /\ 2 \in UsedBits(InDiscreteValues)
          /\ 22 \in UsedBits(InDiscreteValues)

\* C15 as stated: every discrete channel value has exactly one bit set; the
\* output discrete channels occupy bits 0 through 20 (lowest used bit 0,
\* highest used non-haptic bit 20) and the haptic bits 28 and 29; the input
\* discrete channels occupy bits 2 through 22.
C15_DiscreteChannelBitsAsStated == DiscreteChannelBits(20)

\* C15 amended: every discrete channel value has exactly one bit set; the
\* output discrete channels occupy bits 0 through 19 (lowest used bit 0,
\* highest used non-haptic bit 19) and the haptic bits 28 and 29; the input
\* discrete channels occupy bits 2 through 22 (lowest used bit 2, highest used
\* bit 22).
C15_DiscreteChannelBits == DiscreteChannelBits(19)

\* the output channel with the highest non-haptic bit was given to a
\* projection: its one bit is bit 19
C15_Witness ==
    /\ pc = "projected"
    /\ v = EnumValue(build, "AUDIO_CHANNEL_OUT_TOP_SIDE_RIGHT")
    /\ BitPositions(v) = {19}
    /\ str = ""

DeviceFlagBits ==
    {EnumValue(build, "AUDIO_DEVICE_BIT_IN"), EnumValue(build, "AUDIO_DEVICE_BIT_DEFAULT")}

\* C16: the device flag bits never appear on their own.  No entry of the
\* device table, canonical or alias, has a value that is exactly
\* AUDIO_DEVICE_BIT_IN (0x80000000) or exactly AUDIO_DEVICE_BIT_DEFAULT
\* (0x40000000): no device name parses to such a value and such a value has no
\* projection.
C16_DeviceFlagBitsNeverAlone ==
    /\ (pc \in {"parsed", "reparsed"} /\ fn = "audio_device_from_string" /\ ret)
          => t \notin DeviceFlagBits
    /\ (pc \in {"projected", "reprojected"} /\ fn = "audio_device_to_string"
           /\ v \in DeviceFlagBits)
          => str = ""

\* the values of one direction's mask table
DirectionValues(d) == {EnumValue(build, sym) : sym \in DirectionSymbols(d)}

\* the channel mask to_string functions that return a name for x
ChannelProjections(x) == {f \in ChannelProjectors : to_string(f, build, x) # ""}

\* C19: the directions are disjoint.  The value sets of the output, input and
\* index mask tables are pairwise disjoint, AUDIO_CHANNEL_NONE (0) apart, which
\* is in all three projection tables: for every string that
\* audio_channel_mask_from_string accepts with a non-zero value, exactly one of
\* the three to_string functions returns a non-empty string, and for the value
\* 0 all three return "AUDIO_CHANNEL_NONE".
C19_DirectionsDisjoint ==
    /\ (pc = "parsed" /\ fn = ChannelParser /\ ret) =>
          IF t = Zero
          THEN \A f \in ChannelProjectors : to_string(f, build, t) = "AUDIO_CHANNEL_NONE"
          ELSE Cardinality(ChannelProjections(t)) = 1
    /\ (pc = "projected" /\ v # Zero) =>
          Cardinality({d \in Directions : v \in DirectionValues(d)}) <= 1

\* AUDIO_CHANNEL_INDEX_MASK_1 was parsed: it differs from AUDIO_CHANNEL_OUT_MONO
\* in the index representation bit only, and the index projection alone names it
C19_Witness ==
    /\ pc = "parsed"
    /\ fn = ChannelParser
    /\ s = "AUDIO_CHANNEL_INDEX_MASK_1"
    /\ ret
    /\ t = Or(EnumValue(build, "AUDIO_CHANNEL_INDEX_HDR"), EnumValue(build, "AUDIO_CHANNEL_OUT_MONO"))
    /\ ChannelProjections(t) = {"audio_channel_index_mask_to_string"}

\* the non-empty names the to_string functions of a from_string function's
\* enum return for x
ProjectionsOf(g, b, x) == {to_string(f, b, x) : f \in ProjectorsOf(g)} \ {""}

\* C20: parse-then-project closure.  Every value a successful from_string
\* call writes has a non-empty to_string projection in its enum (for channel
\* masks, from at least one of the three to_string functions), and parsing a
\* projected name yields the same value again.
C20_ParseProjectClosure ==
    /\ (pc \in {"parsed", "reparsed"} /\ ret) =>
          /\ ProjectionsOf(fn, build, t) # {}
          /\ \A n \in ProjectionsOf(fn, build, t) : \A out \in InitialOutputs :
                from_string(fn, build, n, out) = [ret |-> TRUE, t |-> t]
    /\ (pc = "reprojected" /\ str # "") =>
          \A out \in InitialOutputs :
              from_string(ParserOf(fn), build, str, out) = [ret |-> TRUE, t |-> t]

\* an alias was parsed and its value projected: the projection is the
\* canonical name, which parses to the value the alias wrote
C20_Witness ==
    /\ pc = "reprojected"
    /\ s = "AUDIO_DEVICE_IN_STUB"
    /\ ret
    /\ str = "AUDIO_DEVICE_IN_DEFAULT"
    /\ t = W(\hC000, \h0000)
    /\ from_string(ParserOf(fn), build, str, Zero) = [ret |-> TRUE, t |-> t]

----------------------------------------------------------------------------
(* Properties of mutex_get_enable_flag, checked under MutexSpec *)

Returned == {th \in Threads : rets[th] # <<>>}

\* C8: flag memoization.  However many threads call mutex_get_enable_flag
\* concurrently before any call has completed, and however they interleave,
\* mutex_priority_inheritance() is evaluated exactly once and all the calls
\* return the same value.
C8_FlagMemoization ==
    /\ evals <= 1
    /\ Returned # {} => evals = 1
    /\ \A a \in Threads, b \in Threads :
         \A i \in DOMAIN rets[a], j \in DOMAIN rets[b] : rets[a][i] = rets[b][j]

\* every thread has returned from a call, and all but the initializing thread
\* had found the initialization in progress
C8_Witness ==
    /\ Returned = Threads
    /\ waited = NumThreads - 1
    /\ evals = 1

\* C9: once a call of mutex_get_enable_flag has returned b, every later call
\* returns b, and the flag is not read again, even if its value has changed;
\* over any sequence of calls the flag is read exactly once.
C9_CachedAfterFirstReturn ==
    [][Returned # {} =>
         /\ evals = 1
         /\ evals' = evals
         /\ \A a \in Returned, b \in Threads :
              \A j \in DOMAIN rets'[b] : rets'[b][j] = rets[a][1]]_vars

\* a thread's second call returned the cached value while the flag had the
\* other value
C9_Witness ==
    /\ \E th \in Threads : Len(rets[th]) >= 2
    /\ stale
    /\ enable # <<source>>
    /\ evals = 1

\* the threads that ran the initializer of 'enable': their 'flag' has a value
Initializers == {th \in Threads : flag[th] # <<>>}

\* C17: no caller of mutex_get_enable_flag observes a partial or divergent
\* result.  No call reaches its return before the single evaluation of the
\* flag has completed and initialized 'enable', and every call returns the
\* value that this evaluation read.
C17_NoPartialResult ==
    \A th \in Threads :
        (tpc[th] = "return" \/ rets[th] # <<>>) =>
            /\ guard = "done"
            /\ evals = 1
            /\ Cardinality(Initializers) = 1
            /\ \A i \in Initializers :
                 /\ enable = flag[i]
                 /\ \A k \in DOMAIN rets[th] : rets[th][k] = flag[i][1]

\* a thread that found the initialization in progress has returned the value
\* read by the initializing thread, which is itself still about to return
C17_Witness ==
    /\ waited >= 1
    /\ \E th \in Threads \ Initializers :
         /\ rets[th] # <<>>
         /\ \E i \in Initializers :
              /\ tpc[i] = "return"
              /\ rets[i] = <<>>
              /\ rets[th][1] = flag[i][1]

\* C18: liveness.  If the flag query returns and the threads are scheduled
\* fairly, every call of mutex_get_enable_flag eventually returns, the calls
\* that arrive while another thread is performing the first evaluation
\* included: a thread's n-th call leads to its n-th return.
C18_EveryCallReturns ==
    \A th \in Threads : \A n \in 1..MaxCalls :
        (calls[th] = n) ~> (Len(rets[th]) = n)

\* every thread has made and returned from all its calls, and some of them
\* had arrived during the first evaluation
C18_Witness ==
    /\ waited >= 1
    /\ \A th \in Threads :
         /\ calls[th] = MaxCalls
         /\ Len(rets[th]) = MaxCalls
         /\ tpc[th] = "idle"

====
